---- MODULE Spec2Model ----
(***************************************************************************)
(* Template-driven signal extraction of flexi-trader:                      *)
(*   app/services/extraction_engine.py   ExtractionEngine                  *)
(*   app/services/parser_engine.py       ParserEngine                      *)
(*   app/services/signal_validator.py    SignalValidator                   *)
(*   app/services/template_manager.py    TemplateManager (template store)  *)
(*                                                                         *)
(* Text values are strings; Python's None is the string None below.        *)
(* Absent record-valued attributes are the record Nil.  A message is       *)
(* modelled by what every locator (a regex pattern, a line or marker       *)
(* configuration) finds in its text: the captured text, or None.           *)
(* Decimals are integers (prices in whole units, scores in hundredths).    *)
(***************************************************************************)
EXTENDS Integers, Sequences, FiniteSets, TLC

VARIABLES
    templates,   \* the templates table: sequence of rows, row i has id i
    pc,          \* position of the current parse_message call
    message,     \* the message argument of the current call
    chan,        \* the channel_id argument of the current call
    candidates,  \* parse_message: the sorted template list (ids)
    attempts,    \* parse_message: log of the templates tried, in order
    result,      \* parse_message: what the call handed to its caller
    ext,         \* outcome of the last direct extract_all_fields call
    db,          \* the signals table and the messages marked is_signal
    calls,       \* the methods invoked on the database session, in order
    batch,       \* the parse_batch call in progress: its locals
    val,         \* outcome of the last direct SignalValidator call
    pipe,        \* SignalProcessingPipeline.process_message: the call in progress
    recv,        \* MessageReceiverService: the stored messages and the calls made
    limiter,     \* MessageProcessorService with its RateLimiterService
    mq,          \* MessageQueueService: queue, counters, workers, callers
    mgr,         \* TemplateManager: the last create_template or update_template call
    chans,       \* ChannelService: the channels table and the last create_channel call
    bot,         \* TelegramBotHandler: the /add_channel conversation and handle_message
    row          \* a stored Message row under record_extraction_attempt

\* the state of the services around the parser
\* the channel registry, the bot in front of it and a message row
frontVars == <<chans, bot, row>>

serviceVars == <<pipe, recv, limiter, mq, mgr, frontVars>>

\* the state of the parser, its store and its direct callers
parserVars == <<templates, pc, message, chan, candidates, attempts, result, ext,
                db, calls, batch, val>>

vars == <<templates, pc, message, chan, candidates, attempts, result, ext,
          db, calls, batch, val, serviceVars>>

-----------------------------------------------------------------------------
(* Values *)

NoExt == [called |-> FALSE]      \* no direct extract_all_fields call yet
NoResult == [outcome |-> "none"] \* parse_message has not returned
NoBatch == [active |-> FALSE]    \* no parse_batch call in progress
NoVal == [called |-> FALSE]      \* no direct SignalValidator call yet
EmptyDb == [signals |-> {}, messages |-> {}]
NoPipe == [active |-> FALSE]     \* no pipeline call in progress
NoReceived == [stored |-> {}, log |-> << >>]   \* an empty messages table, no call made
NoLimiter == [built |-> FALSE]
NoQueue == [built |-> FALSE]    \* MessageQueueService not constructed yet
NoChannels == [rows |-> {}, last |-> [op |-> "none"]]   \* an empty channels table
NoBot == [state |-> "END", user_data |-> <<>>, reply |-> "none", handled |-> [nil |-> TRUE]]
NoMessageRow == [stored |-> FALSE] \* the Message row not created yet
NoManagerCall == [op |-> "none"]   \* TemplateManager not called yet
NoJoin == [at |-> "none"]       \* no process_queue or batch_process call made

None == "<None>"
Nil == [nil |-> TRUE]

MaxTemplates == 2            \* rows the templates table may hold

Channels == {"c1", "c2"}

Locators == {"sym", "entry", "sl", "tp", "tf", "type"}
BadPattern == "(["           \* a pattern re.compile rejects

SymbolTexts == {None, "xau/usd"}
EntryTexts == {None, "0", "-5", "100", "abc"}
StopLossTexts == {None, "95", "105"}
TakeProfitTexts == {None, "110"}
TimeframeTexts == {None, "", "1h", "2H"}
TypeTexts == {None, "buy", "sell ", "hold"}

Messages ==
    [sym : SymbolTexts, entry : EntryTexts, sl : StopLossTexts,
     tp : TakeProfitTexts, tf : TimeframeTexts, type : TypeTexts]

\* the messages used where the template store varies
BaseMessage ==
    [sym |-> "xau/usd", entry |-> "100", sl |-> "95", tp |-> "110",
     tf |-> "1h", type |-> "sell "]
ParserMessages ==
    { BaseMessage,
      [BaseMessage EXCEPT !.sl = None, !.tp = None],
      [BaseMessage EXCEPT !.sym = None],
      [m \in Locators |-> None] }

\* str.upper() on the texts of the model
UpperTable ==
    [s \in {"xau/usd", "buy", "sell ", "hold", "1h"} |->
        CASE s = "xau/usd" -> "XAU/USD"
          [] s = "buy" -> "BUY"
          [] s = "sell " -> "SELL "
          [] s = "hold" -> "HOLD"
          [] s = "1h" -> "1H"]
Upper(s) == IF s \in DOMAIN UpperTable THEN UpperTable[s] ELSE s

\* str.strip() on the texts of the model
Strip(s) == IF s = "SELL " THEN "SELL" ELSE IF s = "sell " THEN "sell" ELSE s

\* Decimal(str(v)): the number a text denotes; other texts raise InvalidOperation
DecimalTable ==
    [s \in {"0", "-5", "95", "100", "105", "110"} |->
        CASE s = "0" -> 0
          [] s = "-5" -> 0 - 5
          [] s = "95" -> 95
          [] s = "100" -> 100
          [] s = "105" -> 105
          [] s = "110" -> 110]
IsDecimal(s) == s \in DOMAIN DecimalTable
ToDecimal(s) == DecimalTable[s]

\* Python truthiness of a text value
Truthy(v) == v # None /\ v # ""

\* dict.get(key, default)
Get(d, k, default) == IF k \in DOMAIN d THEN d[k] ELSE default

-----------------------------------------------------------------------------
(* Template configurations *)

\* A field configuration is a dict: name is the key it is stored under in
\* extraction_config["fields"]; extraction_method, regex_pattern and required
\* are optional keys; locator stands for the parameters of a line, marker or
\* position field (line_number, marker_start/marker_end, start_pos).
Methods == {"regex", "line", "marker", "position"}

Regex(name, pattern, required) ==
    [name |-> name, extraction_method |-> "regex", regex_pattern |-> pattern,
     required |-> required]
ByLocator(name, method, loc, required) ==
    [name |-> name, extraction_method |-> method, locator |-> loc,
     required |-> required]

CoreFields ==
    << Regex("symbol", "sym", TRUE),
       [name |-> "entry_price", regex_pattern |-> "entry", required |-> TRUE],
       Regex("stop_loss", "sl", FALSE),
       Regex("take_profits", "tp", FALSE),
       ByLocator("timeframe", "marker", "tf", FALSE),
       [name |-> "signal_type", extraction_method |-> "regex",
        regex_pattern |-> "type"] >>

StrictFields ==
    << Regex("symbol", "sym", TRUE),
       Regex("entry_price", "entry", TRUE),
       Regex("stop_loss", "sl", TRUE),
       ByLocator("take_profits", "line", "tp", TRUE) >>

BareFields ==
    << Regex("symbol", "sym", TRUE),
       Regex("entry_price", "entry", TRUE),
       Regex("timeframe", "tf", TRUE) >>

LooseFields ==
    << Regex("symbol", "sym", FALSE),
       ByLocator("entry_price", "position", "entry", FALSE) >>

BadRegexFields ==
    << Regex("symbol", "sym", TRUE),
       Regex("entry_price", BadPattern, TRUE),
       Regex("stop_loss", "sl", TRUE) >>

NullPatternFields ==
    << Regex("symbol", None, FALSE) >>

UnknownMethodFields ==
    << ByLocator("symbol", "xpath", "sym", TRUE),
       Regex("entry_price", "entry", TRUE),
       ByLocator("stop_loss", "css", "sl", FALSE) >>

NoPatternFields ==
    << [name |-> "symbol", extraction_method |-> "regex", required |-> TRUE] >>

FieldLists ==
    { CoreFields, StrictFields, BareFields, LooseFields, BadRegexFields,
      NullPatternFields, UnknownMethodFields, NoPatternFields, << >> }

\* extraction_config: "fields" and an optional "priority"
Configs ==
    [fields : FieldLists] \cup [fields : FieldLists, priority : {1, 5}]

-----------------------------------------------------------------------------
(* ExtractionEngine *)

\* dict[key] = value
Put(d, k, v) == [x \in DOMAIN d \cup {k} |-> IF x = k THEN v ELSE d[x]]

\* RegexExtractionMethod.extract: re.search of the pattern in the message
RegexExtract(msg, pattern) ==
    IF pattern = BadPattern
    THEN [exc |-> "ExtractionError", value |-> None]
    ELSE IF pattern = None
         THEN [exc |-> "TypeError", value |-> None]
         ELSE [exc |-> "none", value |-> msg[pattern]]

\* LineBased-, MarkerBased- and TextPositionExtractionMethod.extract
LocatorExtract(msg, config) ==
    IF "locator" \in DOMAIN config
    THEN [exc |-> "none", value |-> msg[config.locator]]
    ELSE [exc |-> "none", value |-> None]

Failure == [exc |-> "none", value |-> None, success |-> FALSE]

\* extract_field without its "except ExtractionError: raise" clause
ExtractFieldSwallow(msg, field_config) ==
    LET method_name == Get(field_config, "extraction_method", "regex")
    IN  IF method_name \notin Methods
        THEN Failure
        ELSE LET r == IF method_name = "regex"
                      THEN RegexExtract(msg, Get(field_config, "regex_pattern", None))
                      ELSE LocatorExtract(msg, field_config)
             IN  IF r.exc # "none"
                 THEN Failure
                 ELSE IF r.value = None /\ Get(field_config, "required", FALSE)
                      THEN Failure
                      ELSE [exc |-> "none", value |-> r.value, success |-> TRUE]

ExtractField(msg, field_config) ==
    LET method_name == Get(field_config, "extraction_method", "regex")
    IN  IF method_name \notin Methods
        THEN Failure
        ELSE LET r == IF method_name = "regex"
                      THEN RegexExtract(msg, Get(field_config, "regex_pattern", None))
                      ELSE LocatorExtract(msg, field_config)
             IN  IF r.exc = "ExtractionError"
                 THEN [exc |-> "ExtractionError", value |-> None, success |-> FALSE]
                 ELSE IF r.exc # "none"
                      THEN Failure
                      ELSE IF r.value = None /\ Get(field_config, "required", FALSE)
                           THEN Failure
                           ELSE [exc |-> "none", value |-> r.value, success |-> TRUE]

\* the loop body recording an error for every failed field, required or not
ExtractStepAnyError(msg, field_config, acc) ==
    LET r == ExtractField(msg, field_config)
        seen == Append(acc.attempted, field_config.name)
    IN  IF r.exc # "none"
        THEN [acc EXCEPT !.exc = r.exc, !.attempted = seen]
        ELSE IF r.success
             THEN [acc EXCEPT !.attempted = seen,
                              !.data = Put(acc.data, field_config.name, r.value)]
             ELSE [acc EXCEPT !.attempted = seen,
                              !.errors = Append(acc.errors, field_config.name)]

\* one iteration of the loop of extract_all_fields; acc holds its locals
ExtractStep(msg, field_config, acc) ==
    LET r == ExtractField(msg, field_config)
        seen == Append(acc.attempted, field_config.name)
    IN  IF r.exc # "none"
        THEN [acc EXCEPT !.exc = r.exc, !.attempted = seen]
        ELSE IF r.success
             THEN [acc EXCEPT !.attempted = seen,
                              !.data = Put(acc.data, field_config.name, r.value)]
             ELSE IF Get(field_config, "required", FALSE)
                  THEN [acc EXCEPT !.attempted = seen,
                                   !.errors = Append(acc.errors, field_config.name)]
                  ELSE [acc EXCEPT !.attempted = seen]

EmptyDict == [k \in {} |-> None]

\* the loop of extract_all_fields after n fields; it ends at a raise
RECURSIVE ExtractLoop(_, _, _)
ExtractLoop(msg, fields, n) ==
    IF n = 0
    THEN [exc |-> "none", data |-> EmptyDict, errors |-> << >>,
          attempted |-> << >>]
    ELSE LET acc == ExtractLoop(msg, fields, n - 1)
         IN  IF acc.exc # "none" THEN acc
             ELSE ExtractStep(msg, fields[n], acc)

\* extract_all_fields(message, extraction_config): data and errors when it
\* returns, exc when it raises; attempted lists the fields it called
\* extract_field for
ExtractAllFields(msg, extraction_config) ==
    ExtractLoop(msg, extraction_config.fields, Len(extraction_config.fields))

\* test_extraction without its except clauses
TestExtractionPropagating(sample_message, extraction_config) ==
    LET e == ExtractAllFields(sample_message, extraction_config)
    IN  IF e.exc = "none"
        THEN [outcome |-> "returned", success |-> Len(e.errors) = 0,
              extracted_data |-> e.data, errors |-> e.errors]
        ELSE [outcome |-> "raised", exc |-> e.exc]

\* test_extraction: the dict it returns; an exception of
\* extract_all_fields becomes the single entry str(e) of errors
TestExtraction(sample_message, extraction_config) ==
    LET e == ExtractAllFields(sample_message, extraction_config)
    IN  IF e.exc = "none"
        THEN [outcome |-> "returned", success |-> Len(e.errors) = 0,
              extracted_data |-> e.data, errors |-> e.errors]
        ELSE [outcome |-> "returned", success |-> FALSE,
              extracted_data |-> EmptyDict, errors |-> <<e.exc>>]

-----------------------------------------------------------------------------
(* SignalValidator *)

VALID_SIGNAL_TYPES == {"BUY", "SELL", "LONG", "SHORT"}
VALID_TIMEFRAMES == {"1M", "5M", "15M", "30M", "1H", "4H", "1D", "1W"}

ValidateSignalType(signal_type) ==
    LET normalized == Strip(Upper(signal_type))
    IN  IF normalized \notin VALID_SIGNAL_TYPES
        THEN [exc |-> "ValidationError", field |-> "signal_type", value |-> None]
        ELSE [exc |-> "none", field |-> None, value |-> normalized]

ValidateTimeframe(timeframe) ==
    LET normalized == Strip(Upper(timeframe))
    IN  IF normalized \notin VALID_TIMEFRAMES
        THEN [exc |-> "ValidationError", field |-> "timeframe", value |-> None]
        ELSE [exc |-> "none", field |-> None, value |-> normalized]

\* the buy check that lets a take-profit equal to the entry pass
ValidateBuySignalAllowEqual(entry, stop_loss, take_profit) ==
    IF entry <= stop_loss THEN FALSE
    ELSE IF take_profit # << >> /\ take_profit[1] < entry THEN FALSE
         ELSE TRUE

\* take_profit is a sequence: << >> for the default None, <<p>> for a price;
\* TRUE when it returns True, FALSE when it raises ValidationError
ValidateBuySignal(entry, stop_loss, take_profit) ==
    IF entry <= stop_loss THEN FALSE
    ELSE IF take_profit # << >> /\ take_profit[1] <= entry THEN FALSE
         ELSE TRUE

ValidateSellSignal(entry, stop_loss, take_profit) ==
    IF entry >= stop_loss THEN FALSE
    ELSE IF take_profit # << >> /\ take_profit[1] >= entry THEN FALSE
         ELSE TRUE

\* str.replace("/", "") and len() on the texts of the model
RemoveSlashes(s) ==
    IF s = "XAU/USD" THEN "XAUUSD" ELSE IF s = "xau/usd" THEN "xauusd" ELSE s
StrLen(s) ==
    CASE s \in {"XAUUSD", "xauusd"} -> 6
      [] s \in {"XAU/USD", "xau/usd"} -> 7
      [] s = "" -> 0
      [] OTHER -> 4

\* validate_symbol: the normalized symbol, or ValidationError
ValidateSymbol(symbol) ==
    IF ~Truthy(symbol)
    THEN [exc |-> "ValidationError", value |-> None]
    ELSE LET normalized == Strip(RemoveSlashes(Upper(symbol)))
         IN  IF StrLen(normalized) < 3 \/ StrLen(normalized) > 20
             THEN [exc |-> "ValidationError", value |-> None]
             ELSE [exc |-> "none", value |-> normalized]

-----------------------------------------------------------------------------
(* ParserEngine *)

Raise(exc, field) ==
    [exc |-> exc, field |-> field, data |-> EmptyDict, price_check |-> "skipped"]

\* dict.pop(key, None)
Pop(d, k) == [x \in DOMAIN d \ {k} |-> d[x]]

\* _validate_extracted_data, lines 203-221: signal type and timeframe
NormalizeTypeAndTimeframe(extracted_data) ==
    LET vt == ValidateSignalType(Upper(Get(extracted_data, "signal_type", "BUY")))
        d1 == Put(extracted_data, "signal_type",
                  IF vt.exc = "none" THEN vt.value ELSE "BUY")
        tf == Get(d1, "timeframe", None)
    IN  IF ~Truthy(tf) THEN d1
        ELSE LET vf == ValidateTimeframe(tf)
             IN  IF vf.exc = "none" THEN Put(d1, "timeframe", vf.value)
                 ELSE Pop(d1, "timeframe")

\* _validate_extracted_data, lines 223-244: the advisory price check
PriceCheck(d) ==
    LET entry == ToDecimal(d["entry_price"])
        stop_loss == ToDecimal(d["stop_loss"])
    IN  IF d["signal_type"] = "BUY"
        THEN ValidateBuySignal(entry, stop_loss, <<entry>>)
        ELSE ValidateSellSignal(entry, stop_loss, <<entry>>)

\* the validation without the try/except around the price check
ValidateExtractedDataStrict(extracted_data) ==
    IF ~Truthy(Get(extracted_data, "symbol", None))
    THEN Raise("ValidationError", "symbol")
    ELSE IF "entry_price" \notin DOMAIN extracted_data
    THEN Raise("ValidationError", "entry_price")
    ELSE IF Get(extracted_data, "signal_type", "BUY") = None
    THEN Raise("AttributeError", None)           \* None.upper()
    ELSE LET d == NormalizeTypeAndTimeframe(extracted_data)
         IN  IF ~IsDecimal(d["entry_price"])
             THEN Raise("InvalidOperation", None)       \* Decimal(str(...))
             ELSE IF ~Truthy(Get(d, "stop_loss", None))
             THEN [exc |-> "none", field |-> None, data |-> d,
                   price_check |-> "skipped"]
             ELSE IF ~IsDecimal(d["stop_loss"])
             THEN Raise("InvalidOperation", None)
             ELSE IF ~PriceCheck(d)
             THEN Raise("ValidationError", "price_logic")
             ELSE [exc |-> "none", field |-> None, data |-> d,
                   price_check |-> "passed"]

\* _validate_extracted_data: the validated data, or the exception raised
ValidateExtractedData(extracted_data) ==
    IF ~Truthy(Get(extracted_data, "symbol", None))
    THEN Raise("ValidationError", "symbol")
    ELSE IF "entry_price" \notin DOMAIN extracted_data
    THEN Raise("ValidationError", "entry_price")
    ELSE IF Get(extracted_data, "signal_type", "BUY") = None
    THEN Raise("AttributeError", None)           \* None.upper()
    ELSE LET d == NormalizeTypeAndTimeframe(extracted_data)
         IN  IF ~IsDecimal(d["entry_price"])
             THEN Raise("InvalidOperation", None)       \* Decimal(str(...))
             ELSE IF ~Truthy(Get(d, "stop_loss", None))
             THEN [exc |-> "none", field |-> None, data |-> d,
                   price_check |-> "skipped"]
             ELSE IF ~IsDecimal(d["stop_loss"])
             THEN Raise("InvalidOperation", None)
             ELSE [exc |-> "none", field |-> None, data |-> d,
                   price_check |-> IF PriceCheck(d) THEN "passed" ELSE "failed"]

\* _normalize_take_profits of what an extraction yields: None or one text
NormalizeTakeProfits(take_profits_data) ==
    IF ~Truthy(take_profits_data) THEN << >>
    ELSE << [level |-> "TP1", price |-> ToDecimal(take_profits_data),
             hit |-> FALSE, hit_at |-> None] >>

\* the score deducting 0.10 for a missing stop-loss
CalculateConfidenceScoreStopLoss10(data) ==
    LET s1 == 100 - (IF ~Truthy(Get(data, "stop_loss", None)) THEN 10 ELSE 0)
        s2 == s1 - (IF ~Truthy(Get(data, "take_profits", None)) THEN 15 ELSE 0)
        s3 == s2 - (IF ~Truthy(Get(data, "timeframe", None)) THEN 5 ELSE 0)
        s4 == s3 - (IF ~Truthy(Get(data, "signal_type", None))
                       \/ Get(data, "signal_type", None) = "BUY" THEN 5 ELSE 0)
        capped == IF 100 < s4 THEN 100 ELSE s4
    IN  IF capped < 0 THEN 0 ELSE capped

\* _calculate_confidence_score, in hundredths
CalculateConfidenceScore(data) ==
    LET s1 == 100 - (IF ~Truthy(Get(data, "stop_loss", None)) THEN 15 ELSE 0)
        s2 == s1 - (IF ~Truthy(Get(data, "take_profits", None)) THEN 15 ELSE 0)
        s3 == s2 - (IF ~Truthy(Get(data, "timeframe", None)) THEN 5 ELSE 0)
        s4 == s3 - (IF ~Truthy(Get(data, "signal_type", None))
                       \/ Get(data, "signal_type", None) = "BUY" THEN 5 ELSE 0)
        capped == IF 100 < s4 THEN 100 ELSE s4
    IN  IF capped < 0 THEN 0 ELSE capped

\* the constructor call without status=: the attribute stays None until
\* the column default is applied at flush
CreateSignalFromDataNoStatus(validated_data, msg, template, channel_id) ==
    LET stop_loss == Get(validated_data, "stop_loss", None)
        take_profits_data == Get(validated_data, "take_profits", None)
    IN  IF Truthy(take_profits_data) /\ ~IsDecimal(take_profits_data)
        THEN [exc |-> "InvalidOperation", signal |-> Nil]
        ELSE [exc |-> "none",
              signal |->
                [channel_id |-> channel_id,
                 template_id |-> template.id,
                 original_message_text |-> msg,
                 symbol |-> Upper(validated_data["symbol"]),
                 entry_price |-> ToDecimal(validated_data["entry_price"]),
                 take_profits |-> NormalizeTakeProfits(take_profits_data),
                 stop_loss |-> IF Truthy(stop_loss)
                               THEN [price |-> ToDecimal(stop_loss),
                                     hit |-> FALSE, hit_at |-> None]
                               ELSE Nil,
                 signal_type |-> Get(validated_data, "signal_type", "BUY"),
                 timeframe |-> Get(validated_data, "timeframe", None),
                 status |-> None,
                 confidence_score |-> CalculateConfidenceScore(validated_data),
                 extracted_fields |-> DOMAIN validated_data]]

\* the Signal object, or exc when a Decimal conversion raises
CreateSignalFromData(validated_data, msg, template, channel_id) ==
    LET stop_loss == Get(validated_data, "stop_loss", None)
        take_profits_data == Get(validated_data, "take_profits", None)
    IN  IF Truthy(take_profits_data) /\ ~IsDecimal(take_profits_data)
        THEN [exc |-> "InvalidOperation", signal |-> Nil]
        ELSE [exc |-> "none",
              signal |->
                [channel_id |-> channel_id,
                 template_id |-> template.id,
                 original_message_text |-> msg,
                 symbol |-> Upper(validated_data["symbol"]),
                 entry_price |-> ToDecimal(validated_data["entry_price"]),
                 take_profits |-> NormalizeTakeProfits(take_profits_data),
                 stop_loss |-> IF Truthy(stop_loss)
                               THEN [price |-> ToDecimal(stop_loss),
                                     hit |-> FALSE, hit_at |-> None]
                               ELSE Nil,
                 signal_type |-> Get(validated_data, "signal_type", "BUY"),
                 timeframe |-> Get(validated_data, "timeframe", None),
                 status |-> "PENDING",
                 confidence_score |-> CalculateConfidenceScore(validated_data),
                 extracted_fields |-> DOMAIN validated_data]]

Failed(exc, reason, field, data) ==
    [exc |-> exc, reason |-> reason, field |-> field, data |-> data,
     price_check |-> "skipped", signal |-> Nil]

\* _extract_from_template: the Signal, or the exception it raises
ExtractFromTemplate(msg, template, channel_id) ==
    LET e == ExtractAllFields(msg, template.extraction_config)
    IN  IF e.exc # "none"
        THEN Failed(e.exc, "invalid_regex", None, EmptyDict)
        ELSE IF e.errors # << >>
        THEN Failed("ExtractionError", "extraction_failed", None, e.data)
        ELSE IF DOMAIN e.data = {}
        THEN Failed("ExtractionError", "no_data", None, e.data)
        ELSE LET v == ValidateExtractedData(e.data)
             IN  IF v.exc # "none"
                 THEN Failed(v.exc, "validation", v.field, e.data)
                 ELSE LET c == CreateSignalFromData(v.data, msg, template, channel_id)
                      IN  IF c.exc # "none"
                          THEN Failed(c.exc, "signal_creation", None, e.data)
                          ELSE [exc |-> "none", reason |-> None, field |-> None,
                                data |-> e.data, price_check |-> v.price_check,
                                signal |-> c.signal]

\* the query without its is_active filter
QueryTemplatesAnyStatus(store, channel_id) ==
    { i \in DOMAIN store : store[i].channel_id = channel_id }

\* the rows of the query of _get_applicable_templates
QueryTemplates(store, channel_id) ==
    { i \in DOMAIN store :
        store[i].channel_id = channel_id /\ store[i].is_active }

\* the orders in which .all() may deliver a set of rows
Orders(S) ==
    { q \in [1..Cardinality(S) -> S] :
        \A i, j \in 1..Cardinality(S) : i # j => q[i] # q[j] }

\* get_priority
GetPriority(template) == Get(template.extraction_config, "priority", 0)

\* the sort without reverse=True
SortByPriorityAscending(store, rows) ==
    LET n == Len(rows)
        before(i, j) ==
            \/ GetPriority(store[rows[i]]) < GetPriority(store[rows[j]])
            \/ /\ GetPriority(store[rows[i]]) = GetPriority(store[rows[j]])
               /\ i < j
        rank(j) == 1 + Cardinality({ i \in 1..n : before(i, j) })
    IN  [k \in 1..n |-> rows[CHOOSE j \in 1..n : rank(j) = k]]

\* sorted(templates, key=get_priority, reverse=True): stable, rows of equal
\* priority keep the order of the query
SortByPriority(store, rows) ==
    LET n == Len(rows)
        before(i, j) ==
            \/ GetPriority(store[rows[i]]) > GetPriority(store[rows[j]])
            \/ /\ GetPriority(store[rows[i]]) = GetPriority(store[rows[j]])
               /\ i < j
        rank(j) == 1 + Cardinality({ i \in 1..n : before(i, j) })
    IN  [k \in 1..n |-> rows[CHOOSE j \in 1..n : rank(j) = k]]

\* an inner handler that lets ValidationError through to the outer one
CaughtExceptValidation(exc) == exc \notin {"none", "ValidationError"}

\* the inner "except Exception" of parse_message: the exceptions of one
\* template that make the loop continue with the next one
CaughtPerTemplate(exc) == exc # "none"

-----------------------------------------------------------------------------
(* TemplateManager: the operations that change what the parser reads *)

ValidateTemplateConfig(config) ==
    /\ "fields" \in DOMAIN config
    /\ config.fields # << >>
    /\ \A i \in DOMAIN config.fields :
         LET fc == config.fields[i]
             m == Get(fc, "extraction_method", "regex")
         IN  /\ m \in Methods
             /\ m = "regex" => "regex_pattern" \in DOMAIN fc

\* the configurations templates are stored with where the store varies
StoreConfigs ==
    { c \in Configs :
        /\ c.fields \in {CoreFields, LooseFields, BadRegexFields, NullPatternFields}
        /\ Get(c, "priority", 5) = 5 }

\* create_template with a configuration that passes validation
CreateTemplate ==
    /\ pc = "idle"
    /\ Len(templates) < MaxTemplates
    /\ \E channel_id \in Channels, config \in StoreConfigs :
         /\ ValidateTemplateConfig(config)
         /\ templates' = Append(templates,
                [id |-> Len(templates) + 1, channel_id |-> channel_id,
                 extraction_config |-> config, is_active |-> TRUE,
                 version |-> 1])
    /\ UNCHANGED <<pc, message, chan, candidates, attempts, result, ext,
                   db, calls, batch, val, serviceVars>>

\* activate_template / deactivate_template: update_template(id, is_active=b)
SetActive ==
    /\ pc = "idle"
    /\ \E i \in DOMAIN templates, b \in BOOLEAN :
         /\ templates[i].is_active # b
         /\ templates' = [templates EXCEPT ![i].is_active = b]
    /\ UNCHANGED <<pc, message, chan, candidates, attempts, result, ext,
                   db, calls, batch, val, serviceVars>>

-----------------------------------------------------------------------------
(* TemplateManager.create_template and update_template, with the calls     *)
(* that are rejected                                                       *)

MaxManaged == 1
MaxVersion == 2

\* the configurations callers pass, valid and invalid
ManagerConfigs ==
    { [fields |-> CoreFields], [fields |-> LooseFields],
      [fields |-> UnknownMethodFields], [fields |-> NoPatternFields],
      [fields |-> << >>], [priority |-> 5] }

\* update_template(template_id, **kwargs)
Kwargs ==
    [is_active : BOOLEAN]
        \cup [extraction_config : ManagerConfigs]
        \cup [extraction_config : {[fields |-> LooseFields], [fields |-> << >>]},
              is_active : {FALSE}]
        \cup [version : {0}]
        \cup [extraction_config : {[fields |-> LooseFields]}, version : {1}]

\* the row with this id, Nil when there is none
GetTemplate(rows, template_id) ==
    IF template_id \in DOMAIN rows THEN rows[template_id] ELSE Nil

\* for key, value in kwargs.items(): setattr(template, key, value)
SetAttrs(template, kwargs) ==
    [a \in DOMAIN template |-> IF a \in DOMAIN kwargs THEN kwargs[a] ELSE template[a]]

\* create_template: TemplateError or the table with the new row
CreateTemplateRow(rows, channel_id, config, commit_ok) ==
    IF ~ValidateTemplateConfig(config) THEN [exc |-> "TemplateError", rows |-> rows]
    ELSE IF channel_id \notin Channels THEN [exc |-> "TemplateError", rows |-> rows]
    ELSE IF ~commit_ok THEN [exc |-> "TemplateError", rows |-> rows]
    ELSE [exc |-> "none",
          rows |-> Append(rows, [id |-> Len(rows) + 1, channel_id |-> channel_id,
                                 extraction_config |-> config, is_active |-> TRUE,
                                 version |-> 1])]

\* update_template that stores the configuration as passed
UpdateTemplateUnvalidated(rows, template_id, kwargs, commit_ok) ==
    LET template == GetTemplate(rows, template_id)
    IN  IF template = Nil THEN [exc |-> "TemplateError", rows |-> rows]
        ELSE IF ~commit_ok THEN [exc |-> "TemplateError", rows |-> rows]
        ELSE LET versioned == IF "extraction_config" \in DOMAIN kwargs
                              THEN [template EXCEPT !.version = @ + 1]
                              ELSE template
             IN  [exc |-> "none",
                  rows |-> [rows EXCEPT ![template_id] = SetAttrs(versioned, kwargs)]]

\* update_template: validate a passed extraction_config and add one to the
\* version, set every attribute named in kwargs, commit; any error rolls
\* back and is raised as TemplateError
UpdateTemplate(rows, template_id, kwargs, commit_ok) ==
    LET template == GetTemplate(rows, template_id)
    IN  IF template = Nil THEN [exc |-> "TemplateError", rows |-> rows]
        ELSE IF /\ "extraction_config" \in DOMAIN kwargs
                /\ ~ValidateTemplateConfig(kwargs.extraction_config)
        THEN [exc |-> "TemplateError", rows |-> rows]
        ELSE IF ~commit_ok THEN [exc |-> "TemplateError", rows |-> rows]
        ELSE LET versioned == IF "extraction_config" \in DOMAIN kwargs
                              THEN [template EXCEPT !.version = @ + 1]
                              ELSE template
             IN  [exc |-> "none",
                  rows |-> [rows EXCEPT ![template_id] = SetAttrs(versioned, kwargs)]]

\* one create_template call, accepted or not
CreateTemplateCall ==
    /\ pc = "idle"
    /\ ~pipe.active
    /\ Len(templates) < MaxManaged
    /\ \E channel_id \in {"c1", "c9"}, config \in ManagerConfigs, commit_ok \in BOOLEAN :
         LET r == CreateTemplateRow(templates, channel_id, config, commit_ok)
         IN  /\ templates' = r.rows
             /\ mgr' = [op |-> "create_template", config |-> config, exc |-> r.exc,
                         before |-> templates]
    /\ UNCHANGED <<pc, message, chan, candidates, attempts, result, ext,
                   db, calls, batch, val, pipe, recv, limiter, mq, frontVars>>

\* one update_template call (activate_template and deactivate_template
\* are the calls with is_active alone)
UpdateTemplateCall ==
    /\ pc = "idle"
    /\ ~pipe.active
    /\ \E template_id \in 1..(Len(templates) + 1), kwargs \in Kwargs,
          commit_ok \in BOOLEAN :
         LET r == UpdateTemplate(templates, template_id, kwargs, commit_ok)
         IN  /\ \A i \in DOMAIN r.rows : r.rows[i].version <= MaxVersion
             /\ templates' = r.rows
             /\ mgr' = [op |-> "update_template", template_id |-> template_id,
                         kwargs |-> kwargs, exc |-> r.exc, before |-> templates]
    /\ UNCHANGED <<pc, message, chan, candidates, attempts, result, ext,
                   db, calls, batch, val, pipe, recv, limiter, mq, frontVars>>

-----------------------------------------------------------------------------
(* parse_message, one template per step *)

Returned(signal, error) ==
    [outcome |-> "returned", signal |-> signal, error |-> error]

\* lines 57-64: the query, the sort and the "no templates" return
ParseStart(msgs) ==
    /\ pc = "idle"
    /\ ext = NoExt
    /\ val = NoVal
    /\ \E msg \in msgs, channel_id \in Channels :
         \E rows \in Orders(QueryTemplates(templates, channel_id)) :
            /\ message' = msg
            /\ chan' = channel_id
            /\ calls' = Append(calls, "query")
            /\ candidates' = SortByPriority(templates, rows)
            /\ attempts' = << >>
            /\ IF rows = << >>
               THEN /\ result' = Returned(Nil, "no_templates")
                    /\ pc' = "done"
               ELSE /\ result' = result
                    /\ pc' = "trying"
    /\ UNCHANGED <<templates, ext, db, batch, val, serviceVars>>

\* the loop iteration that adds and commits the Signal it extracted
TryTemplatePersisting ==
    /\ pc = "trying"
    /\ Len(attempts) < Len(candidates)
    /\ LET t == candidates[Len(attempts) + 1]
           o == ExtractFromTemplate(message, templates[t], chan)
       IN  /\ attempts' = Append(attempts,
                   [template |-> t, exc |-> o.exc, reason |-> o.reason,
                    field |-> o.field, data |-> o.data,
                    price_check |-> o.price_check])
           /\ IF o.exc = "none"
              THEN /\ result' = Returned(o.signal, None)
                   /\ pc' = "done"
              ELSE IF CaughtPerTemplate(o.exc)
                   THEN UNCHANGED <<result, pc>>
                   ELSE /\ result' = Returned(Nil, "parser_error")
                        /\ pc' = "done"
    /\ LET o == ExtractFromTemplate(message, templates[candidates[Len(attempts) + 1]], chan)
       IN  IF o.exc = "none"
           THEN /\ db' = [db EXCEPT !.signals = @ \cup {o.signal}]
                /\ calls' = calls \o <<"add", "commit">>
           ELSE UNCHANGED <<db, calls>>
    /\ UNCHANGED <<templates, message, chan, candidates, ext, batch, val,
                   serviceVars>>

\* lines 67-89: one iteration of the loop over the templates
TryTemplate ==
    /\ pc = "trying"
    /\ Len(attempts) < Len(candidates)
    /\ LET t == candidates[Len(attempts) + 1]
           o == ExtractFromTemplate(message, templates[t], chan)
       IN  /\ attempts' = Append(attempts,
                   [template |-> t, exc |-> o.exc, reason |-> o.reason,
                    field |-> o.field, data |-> o.data,
                    price_check |-> o.price_check])
           /\ IF o.exc = "none"
              THEN /\ result' = Returned(o.signal, None)
                   /\ pc' = "done"
              ELSE IF CaughtPerTemplate(o.exc)
                   THEN UNCHANGED <<result, pc>>
                   ELSE /\ result' = Returned(Nil, "parser_error")
                        /\ pc' = "done"
    /\ UNCHANGED <<templates, message, chan, candidates, ext, db, calls, batch, val,
                   serviceVars>>

\* lines 91-94: every template was tried and none succeeded
NoTemplateSucceeded ==
    /\ pc = "trying"
    /\ Len(attempts) = Len(candidates)
    /\ result' = Returned(Nil, "no_template_extracted")
    /\ pc' = "done"
    /\ UNCHANGED <<templates, message, chan, candidates, attempts, ext,
                   db, calls, batch, val, serviceVars>>

-----------------------------------------------------------------------------
(* parse_batch, and the pipeline step that persists a returned Signal *)

MaxBatch == 2                \* messages a batch may hold

\* the message lists of at most n messages
BatchesUpTo(n) == UNION { [1..k -> ParserMessages] : k \in 0..n }

\* a caller runs parse_message outside a batch
ParseMessageCall ==
    /\ ~batch.active
    /\ ParseStart(ParserMessages)

\* the pipeline persists the Signal parse_message returned: session.add,
\* flush, the channel statistics, commit, then the message is marked
PersistSignal ==
    /\ ~batch.active
    /\ pc = "done"
    /\ result.signal # Nil
    /\ result.signal \notin db.signals
    /\ db' = [signals |-> db.signals \cup {result.signal},
              messages |-> db.messages \cup {message}]
    /\ calls' = calls \o <<"add", "flush", "query", "commit", "commit">>
    /\ UNCHANGED <<templates, pc, message, chan, candidates, attempts, result,
                   ext, batch, val, serviceVars>>

\* lines 406-412: the locals of parse_batch; outcomes logs what
\* parse_message returned for each message
ParseBatchStart ==
    /\ pc = "idle"
    /\ ~batch.active
    /\ ext = NoExt
    /\ val = NoVal
    /\ \E messages \in BatchesUpTo(MaxBatch), channel_id \in Channels :
         batch' = [active |-> TRUE, returned |-> FALSE,
                   messages |-> messages, channel_id |-> channel_id,
                   outcomes |-> << >>,
                   signals |-> << >>,
                   stats |-> [total_messages |-> Len(messages),
                              successful_extractions |-> 0,
                              failed_extractions |-> 0,
                              errors |-> << >>]]
    /\ UNCHANGED <<templates, pc, message, chan, candidates, attempts, result,
                   ext, db, calls, val, serviceVars>>

\* lines 414-420: parse_message is called on the next message of the list
ParseBatchCall ==
    /\ batch.active
    /\ ~batch.returned
    /\ Len(batch.outcomes) < Len(batch.messages)
    /\ ParseStart({batch.messages[Len(batch.outcomes) + 1]})
    /\ chan' = batch.channel_id

\* the bookkeeping that drops the error of a failed message
CollectWithoutError(b, signal, error) ==
    IF signal # Nil
    THEN [b EXCEPT !.signals = Append(@, signal),
                   !.stats.successful_extractions = @ + 1]
    ELSE [b EXCEPT !.stats.failed_extractions = @ + 1]

\* lines 422-428: the bookkeeping on what parse_message returned
Collect(b, signal, error) ==
    IF signal # Nil
    THEN [b EXCEPT !.signals = Append(@, signal),
                   !.stats.successful_extractions = @ + 1]
    ELSE IF Truthy(error)
         THEN [b EXCEPT !.stats.failed_extractions = @ + 1,
                        !.stats.errors = Append(@, error)]
         ELSE [b EXCEPT !.stats.failed_extractions = @ + 1]

\* parse_message has returned inside the batch loop
ParseBatchCollect ==
    /\ batch.active
    /\ pc = "done"
    /\ batch' = [Collect(batch, result.signal, result.error) EXCEPT
                   !.outcomes = Append(@, [message |-> message,
                                           signal |-> result.signal,
                                           error |-> result.error])]
    /\ pc' = "idle"
    /\ result' = NoResult
    /\ candidates' = << >>
    /\ attempts' = << >>
    /\ UNCHANGED <<templates, message, chan, ext, db, calls, val, serviceVars>>

\* line 430: the list is exhausted
ParseBatchReturn ==
    /\ batch.active
    /\ ~batch.returned
    /\ pc = "idle"
    /\ Len(batch.outcomes) = Len(batch.messages)
    /\ batch' = [batch EXCEPT !.returned = TRUE]
    /\ UNCHANGED <<templates, pc, message, chan, candidates, attempts, result,
                   ext, db, calls, val, serviceVars>>

-----------------------------------------------------------------------------
(* SignalProcessingPipeline.process_message, one stage per step *)

PipelineMessages == ParserMessages \cup { [BaseMessage EXCEPT !.entry = "0"] }

\* what the pipeline is constructed with: no limiter, a RateLimiterService
\* (which has no check_rate_limit method), or an object whose
\* check_rate_limit allows or denies
RateLimiters == {"none", "service", "allows", "denies"}

Stages == <<"rate_limit", "duplicate_check", "extraction", "validation", "persistence">>

\* _validate_signal: TRUE when it returns, FALSE when it raises ValidationError
ValidateSignal(signal) ==
    /\ Truthy(signal.symbol)
    /\ signal.entry_price > 0
    /\ signal.signal_type \in {"BUY", "SELL", "LONG", "SHORT"}

\* a stage begins: entered logs the stages that ran
Enter(p, stage) == [p EXCEPT !.entered = Append(@, stage)]

\* result["steps"][step] = outcome
Step(p, step, outcome) ==
    [p EXCEPT !.steps = Append(@, [step |-> step, outcome |-> outcome])]

\* return None, result
Reject(p, status, error_stage) ==
    [p EXCEPT !.returned = TRUE, !.at = "returned", !.status = status,
              !.error_stage = error_stage, !.signal = Nil]

\* lines 64-76: the call and its result dict
ProcessMessageStart ==
    /\ pc = "idle"
    /\ ~pipe.active
    /\ ~batch.active
    /\ ext = NoExt
    /\ val = NoVal
    /\ \E msg \in PipelineMessages, channel_id \in Channels,
          check_duplicates \in BOOLEAN, check_rate_limit \in BOOLEAN,
          rate_limiter \in RateLimiters :
         pipe' = [active |-> TRUE, returned |-> FALSE, at |-> "rate_limit",
                  message |-> msg, channel_id |-> channel_id,
                  check_duplicates |-> check_duplicates,
                  check_rate_limit |-> check_rate_limit,
                  rate_limiter |-> rate_limiter,
                  entered |-> << >>, steps |-> << >>,
                  status |-> "pending", error_stage |-> None, signal |-> Nil]
    /\ UNCHANGED <<templates, pc, message, chan, candidates, attempts, result,
                   ext, db, calls, batch, val,
                   recv, limiter, mq, mgr, frontVars>>

\* lines 78-89: AttributeError for the missing method reaches the outer
\* handler (lines 158-163)
PipelineRateLimit ==
    /\ pipe.active
    /\ pipe.at = "rate_limit"
    /\ pipe' =
         IF pipe.check_rate_limit /\ pipe.rate_limiter # "none"
         THEN LET p == Enter(pipe, "rate_limit")
              IN  CASE pipe.rate_limiter = "service" -> Reject(p, "error", "unknown")
                    [] pipe.rate_limiter = "denies" -> Reject(p, "rate_limited", "rate_limit")
                    [] OTHER -> [Step(p, "rate_limit", "passed") EXCEPT !.at = "duplicate_check"]
         ELSE [pipe EXCEPT !.at = "duplicate_check"]
    /\ UNCHANGED <<templates, pc, message, chan, candidates, attempts, result,
                   ext, db, calls, batch, val,
                   recv, limiter, mq, mgr, frontVars>>

\* the duplicate stage that logs a duplicate and goes on
PipelineDuplicateIgnored ==
    /\ pipe.active
    /\ pipe.at = "duplicate_check"
    /\ IF pipe.check_duplicates
       THEN \E is_duplicate \in BOOLEAN :
              /\ pipe' = [Step(Enter(pipe, "duplicate_check"), "duplicate_check",
                               IF is_duplicate THEN "failed" ELSE "passed")
                            EXCEPT !.at = "extraction"]
              /\ calls' = Append(calls, "query")
       ELSE /\ pipe' = [pipe EXCEPT !.at = "extraction"]
            /\ calls' = calls
    /\ UNCHANGED <<templates, pc, message, chan, candidates, attempts, result,
                   ext, db, batch, val,
                   recv, limiter, mq, mgr, frontVars>>

\* lines 91-101: detect_or_raise queries the stored messages; what it
\* finds is open here
PipelineDuplicate ==
    /\ pipe.active
    /\ pipe.at = "duplicate_check"
    /\ IF pipe.check_duplicates
       THEN \E is_duplicate \in BOOLEAN :
              /\ pipe' = IF is_duplicate
                         THEN Reject(Enter(pipe, "duplicate_check"),
                                     "duplicate_detected", "duplicate_check")
                         ELSE [Step(Enter(pipe, "duplicate_check"),
                                    "duplicate_check", "passed")
                                 EXCEPT !.at = "extraction"]
              /\ calls' = Append(calls, "query")
       ELSE /\ pipe' = [pipe EXCEPT !.at = "extraction"]
            /\ calls' = calls
    /\ UNCHANGED <<templates, pc, message, chan, candidates, attempts, result,
                   ext, db, batch, val,
                   recv, limiter, mq, mgr, frontVars>>

\* lines 103-108: parse_message is called on the message
PipelineExtract ==
    /\ pipe.active
    /\ pipe.at = "extraction"
    /\ ParseStart({pipe.message})
    /\ chan' = pipe.channel_id

\* lines 110-117: parse_message has returned; an extraction failure
\* leaves result["status"] as it was
PipelineExtracted ==
    /\ pipe.active
    /\ pipe.at = "extraction"
    /\ pc = "done"
    /\ pipe' =
         LET p == Enter(pipe, "extraction")
         IN  IF Truthy(result.error)
             THEN Reject(Step(p, "extraction", "failed"), pipe.status, "extraction")
             ELSE [Step(p, "extraction", "success") EXCEPT !.at = "validation"]
    /\ UNCHANGED <<templates, pc, message, chan, candidates, attempts, result,
                   ext, db, calls, batch, val,
                   recv, limiter, mq, mgr, frontVars>>

\* lines 119-129
PipelineValidate ==
    /\ pipe.active
    /\ pipe.at = "validation"
    /\ pipe' =
         LET p == Enter(pipe, "validation")
         IN  IF ValidateSignal(result.signal)
             THEN [Step(p, "validation", "passed") EXCEPT !.at = "persistence"]
             ELSE Reject(p, "validation_failed", "validation")
    /\ UNCHANGED <<templates, pc, message, chan, candidates, attempts, result,
                   ext, db, calls, batch, val,
                   recv, limiter, mq, mgr, frontVars>>

\* lines 131-156 with _persist_signal: the database may fail inside
\* _persist_signal ("persist") or at the commit that marks the message
\* ("mark"), after _persist_signal has committed the Signal
PipelinePersist ==
    /\ pipe.active
    /\ pipe.at = "persistence"
    /\ \E failure \in {"none", "persist", "mark"} :
         LET p == Enter(pipe, "persistence")
         IN  CASE failure = "none" ->
                   /\ pipe' = [Step(p, "persistence", "success") EXCEPT
                                 !.returned = TRUE, !.at = "returned",
                                 !.status = "success", !.signal = result.signal]
                   /\ db' = [signals |-> db.signals \cup {result.signal},
                             messages |-> db.messages \cup {message}]
                   /\ calls' = calls \o <<"add", "flush", "query", "commit", "commit">>
               [] failure = "persist" ->
                   /\ pipe' = Reject(p, "persistence_failed", "persistence")
                   /\ db' = db
                   /\ calls' = calls \o <<"add", "flush", "rollback">>
               [] failure = "mark" ->
                   /\ pipe' = Reject([Step(p, "persistence", "success") EXCEPT
                                        !.status = "success"],
                                     "persistence_failed", "persistence")
                   /\ db' = [db EXCEPT !.signals = @ \cup {result.signal}]
                   /\ calls' = calls \o <<"add", "flush", "query", "commit", "rollback">>
    /\ UNCHANGED <<templates, pc, message, chan, candidates, attempts, result,
                   ext, batch, val,
                   recv, limiter, mq, mgr, frontVars>>

-----------------------------------------------------------------------------
(* MessageReceiverService.receive_message *)

MaxReceive == 3

\* the channel ids callers pass: the rows of the channels table and one
\* id with no row
ReceiverChannels == Channels \cup {"c9"}

TelegramMessageIds == {999, 1000}

\* the attributes class DuplicateDetectionService defines
DuplicateDetectionServiceAttrs ==
    {"__init__", "is_duplicate", "detect_or_raise",
     "_check_exact_message_id_match", "_check_fuzzy_text_match",
     "_check_signal_data_match", "_calculate_similarity",
     "_parse_signal_from_text", "_prices_match", "cleanup_old_messages",
     "get_duplicate_stats"}

\* a stored row with this channel and Telegram id
ExistingMessage(stored, channel_id, telegram_message_id) ==
    \E m \in stored : /\ m.channel_id = channel_id
                      /\ m.telegram_message_id = telegram_message_id

\* DuplicateDetectionService.is_duplicate_message(session, channel_id,
\* telegram_message_id): the attribute lookup on the class
IsDuplicateMessage(stored, channel_id, telegram_message_id) ==
    IF "is_duplicate_message" \in DuplicateDetectionServiceAttrs
    THEN [exc |-> "none", value |-> ExistingMessage(stored, channel_id, telegram_message_id)]
    ELSE [exc |-> "AttributeError"]

\* receive_message: the outcome and the messages table after the call
ReceiveMessage(stored, channel_id, telegram_message_id, id) ==
    IF channel_id \notin Channels
    THEN [outcome |-> "ChannelError", stored |-> stored]
    ELSE LET d == IsDuplicateMessage(stored, channel_id, telegram_message_id)
         IN  IF d.exc # "none"
             THEN [outcome |-> "DatabaseError", stored |-> stored]
             ELSE IF d.value
             THEN [outcome |-> "None", stored |-> stored]
             ELSE [outcome |-> "Message",
                   stored |-> stored \cup {[id |-> id, channel_id |-> channel_id,
                                           telegram_message_id |-> telegram_message_id]}]

\* one receive_message call; the log keeps its arguments, whether the key
\* was stored before it, and its outcome
ReceiveMessageCall ==
    /\ Len(recv.log) < MaxReceive
    /\ ~pipe.active
    /\ \E channel_id \in ReceiverChannels, telegram_message_id \in TelegramMessageIds :
         LET r == ReceiveMessage(recv.stored, channel_id, telegram_message_id,
                                 Len(recv.log) + 1)
         IN  recv' = [stored |-> r.stored,
                      log |-> Append(recv.log,
                                [channel_id |-> channel_id,
                                 telegram_message_id |-> telegram_message_id,
                                 existing |-> ExistingMessage(recv.stored, channel_id,
                                                              telegram_message_id),
                                 outcome |-> r.outcome])]
    /\ UNCHANGED <<parserVars, pipe, limiter, mq, mgr, frontVars>>

-----------------------------------------------------------------------------
(* RateLimiterService and MessageProcessorService.process_message *)

MaxProcess == 3
MaxClock == 2

\* (global_rate_limit, channel_rate_limit, user_rate_limit,
\* window_size_seconds) asked for
LimitChoices == { <<1, 1, 1, 1>>, <<2, 1, 1, 1>>, <<2, 2, 1, 2>> }

UserIds == {None, "u1"}

\* RateLimiterService.__init__: line 44 binds self.global_timestamps and
\* then assigns to list[datetime], which raises TypeError; self is the
\* object as the raise leaves it
RateLimiterServiceInit(limits) ==
    [exc |-> "TypeError",
     self |-> [attrs |-> {"global_rate_limit", "channel_rate_limit", "user_rate_limit",
                          "window_size_seconds", "global_timestamps"},
               global_rate_limit |-> limits[1],
               channel_rate_limit |-> limits[2],
               user_rate_limit |-> limits[3],
               window_size_seconds |-> limits[4],
               global_timestamps |-> << >>]]

RECURSIVE DropOld(_, _)
\* while timestamps and timestamps[0] < cutoff: timestamps.pop(0)
DropOld(timestamps, cutoff) ==
    IF timestamps # << >> /\ Head(timestamps) < cutoff
    THEN DropOld(Tail(timestamps), cutoff)
    ELSE timestamps

\* _is_within_limit after _cleanup_old_timestamps, which reads
\* self.window_size
IsWithinLimit(self, timestamps, limit, now) ==
    IF "window_size" \notin self.attrs
    THEN [exc |-> "AttributeError"]
    ELSE [exc |-> "none",
          value |-> Len(DropOld(timestamps, now - self.window_size)) < limit]

\* check_all_limits: global first; the channel and user checks read
\* dictionaries
CheckAllLimits(self, channel_id, user_id, now) ==
    LET g == IsWithinLimit(self, self.global_timestamps, self.global_rate_limit, now)
    IN  IF g.exc # "none" THEN g
        ELSE IF ~g.value THEN [exc |-> "none", value |-> FALSE]
        ELSE IF "channel_timestamps" \notin self.attrs THEN [exc |-> "AttributeError"]
        ELSE LET c == IsWithinLimit(self, self.channel_timestamps[channel_id],
                                    self.channel_rate_limit, now)
             IN  IF ~c.value THEN c
                 ELSE IF ~Truthy(user_id) THEN [exc |-> "none", value |-> TRUE]
                 ELSE IsWithinLimit(self, self.user_timestamps[user_id],
                                    self.user_rate_limit, now)

\* record_message
RecordMessage(self, channel_id, user_id, now) ==
    LET cutoff == now - self.window_size
        g == [self EXCEPT !.global_timestamps = DropOld(Append(@, now), cutoff)]
        c == [g EXCEPT !.channel_timestamps[channel_id] = DropOld(Append(@, now), cutoff)]
    IN  IF Truthy(user_id)
        THEN [c EXCEPT !.user_timestamps[user_id] = DropOld(Append(@, now), cutoff)]
        ELSE c

\* process_message: what it returns and the limiter after it
ProcessMessage(rate_limiter, channel_id, user_id, now) ==
    IF channel_id \notin Channels
    THEN [value |-> FALSE, rate_limiter |-> rate_limiter]
    ELSE IF rate_limiter = Nil
    THEN [value |-> TRUE, rate_limiter |-> rate_limiter]
    ELSE LET a == CheckAllLimits(rate_limiter, channel_id, user_id, now)
         IN  IF a.exc # "none" THEN [value |-> FALSE, rate_limiter |-> rate_limiter]
             ELSE IF ~a.value THEN [value |-> FALSE, rate_limiter |-> rate_limiter]
             ELSE [value |-> TRUE,
                   rate_limiter |-> RecordMessage(rate_limiter, channel_id, user_id, now)]

\* get_rate_limiter(global_rate, channel_rate, user_rate): the singleton
\* stays None when the constructor raises
GetRateLimiter ==
    /\ ~limiter.built
    /\ ~pipe.active
    /\ "requested" \notin DOMAIN limiter
    /\ \E limits \in LimitChoices :
         LET r == RateLimiterServiceInit(limits)
         IN  limiter' = [built |-> FALSE, requested |-> limits, raised |-> r.exc,
                         singleton |-> IF r.exc = "none" THEN r.self ELSE Nil]
    /\ UNCHANGED <<parserVars, pipe, recv, mq, mgr, frontVars>>

\* MessageProcessorService(rate_limiter=...) with the limiter the program
\* holds
MessageProcessorInit ==
    /\ ~limiter.built
    /\ "requested" \in DOMAIN limiter
    /\ limiter' = [built |-> TRUE, requested |-> limiter.requested,
                    rate_limiter |-> limiter.singleton, now |-> 0, log |-> << >>]
    /\ UNCHANGED <<parserVars, pipe, recv, mq, mgr, frontVars>>

\* the clock moves on by a second
Tick ==
    /\ limiter.built
    /\ limiter.now < MaxClock
    /\ limiter' = [limiter EXCEPT !.now = @ + 1]
    /\ UNCHANGED <<parserVars, pipe, recv, mq, mgr, frontVars>>

\* one process_message call; the log keeps channel, user, time and result
ProcessMessageCall ==
    /\ limiter.built
    /\ Len(limiter.log) < MaxProcess
    /\ \E channel_id \in ReceiverChannels, user_id \in UserIds :
         LET r == ProcessMessage(limiter.rate_limiter, channel_id, user_id, limiter.now)
         IN  limiter' = [limiter EXCEPT
                           !.rate_limiter = r.rate_limiter,
                           !.log = Append(@, [channel_id |-> channel_id,
                                              user_id |-> user_id,
                                              at |-> limiter.now,
                                              admitted |-> r.value])]
    /\ UNCHANGED <<parserVars, pipe, recv, mq, mgr, frontVars>>

-----------------------------------------------------------------------------
(* MessageQueueService: an asyncio.Queue, its workers and its callers.     *)
(* One step is what a coroutine does between two suspensions.              *)

MaxEnqueue == 3

\* max_queue_size and max_concurrent_workers as configured; asyncio.Queue
\* takes maxsize <= 0 as no limit
QueueSizes == {0, 1, 2}
WorkerCounts == {0, 1, 2}

\* how a run of the callbacks on one message ends
CallbackOutcomes == {"ok", "error", "timeout"}

\* asyncio.Queue.full()
Full(q) == q.max_queue_size > 0 /\ Len(q.queue) >= q.max_queue_size

\* asyncio.Queue.put_nowait: QueueFull, or the item is queued and counted
\* as unfinished
PutNowait(q, id) ==
    IF Full(q)
    THEN [raised |-> TRUE, q |-> q]
    ELSE [raised |-> FALSE,
          q |-> [q EXCEPT !.queue = Append(@, id), !.unfinished = @ + 1,
                          !.accepted = @ \cup {id}]]

\* enqueue_message: put_nowait, QueueFull is logged and raised again
EnqueueMessage(q, id) == PutNowait(q, id)

RECURSIVE EnqueueMessages(_, _)
\* enqueue_messages: one after the other, the first QueueFull ends it
EnqueueMessages(q, ids) ==
    IF ids = << >> THEN [raised |-> FALSE, q |-> q]
    ELSE LET r == EnqueueMessage(q, Head(ids))
         IN  IF r.raised THEN r ELSE EnqueueMessages(r.q, Tail(ids))

\* is_queue_full
IsQueueFull(q) == Len(q.queue) >= q.max_queue_size

\* start_workers: nothing when running, else max_concurrent_workers tasks
StartWorkers(q) ==
    IF q.is_running THEN q
    ELSE [q EXCEPT !.is_running = TRUE,
                   !.workers = [i \in 1..q.max_concurrent_workers |-> [at |-> "get"]]]

\* _process_single_message: the counters after the callbacks ran;
\* completed counts the runs of the callbacks that ended, per message
ProcessSingleMessage(q, id, outcome) ==
    IF outcome = "ok"
    THEN [q EXCEPT !.processed_count = @ + 1, !.succeeded = @ \cup {id},
                   !.completed[id] = @ + 1]
    ELSE [q EXCEPT !.error_count = @ + 1, !.completed[id] = @ + 1]

\* asyncio.Queue.task_done: the last unfinished item sets the event a
\* join is waiting on, and the waiter is scheduled
TaskDone(q) ==
    LET d == [q EXCEPT !.unfinished = @ - 1]
    IN  IF d.unfinished = 0 /\ d.join.at = "waiting"
        THEN [d EXCEPT !.join.at = "woken"]
        ELSE d

\* process_queue up to its suspension: start_workers when not running,
\* then queue.join(), which returns at once when nothing is unfinished
ProcessQueue(q, kind, ids) ==
    LET w == StartWorkers(q)
        j == [at |-> IF w.unfinished > 0 THEN "waiting" ELSE "returned",
              kind |-> kind, ids |-> ids,
              was_running |-> q.is_running, waited |-> w.unfinished > 0,
              next |-> w.next,
              qsize |-> Len(w.queue), unfinished |-> w.unfinished,
              value |-> w.processed_count]
    IN  [w EXCEPT !.join = j]

\* MessageQueueService(max_queue_size, max_concurrent_workers)
MessageQueueInit ==
    /\ ~mq.built
    /\ ~pipe.active
    /\ \E max_queue_size \in QueueSizes, max_concurrent_workers \in WorkerCounts :
         mq' = [built |-> TRUE,
                max_queue_size |-> max_queue_size,
                max_concurrent_workers |-> max_concurrent_workers,
                queue |-> << >>, unfinished |-> 0,
                processed_count |-> 0, error_count |-> 0, is_running |-> FALSE,
                workers |-> << >>, next |-> 1, succeeded |-> {},
                accepted |-> {}, completed |-> [id \in 1..MaxEnqueue |-> 0],
                last |-> Nil, join |-> NoJoin]
    /\ UNCHANGED <<parserVars, pipe, recv, limiter, mgr, frontVars>>

\* one enqueue_message call (the bot handler's, at any time); last keeps
\* the queue before and after and whether QueueFull was raised
EnqueueMessageCall ==
    /\ mq.built
    /\ mq.next <= MaxEnqueue
    /\ LET r == EnqueueMessage(mq, mq.next)
       IN  mq' = [r.q EXCEPT !.next = @ + 1,
                             !.last = [id |-> mq.next, raised |-> r.raised,
                                       before |-> mq.queue, after |-> r.q.queue,
                                       is_queue_full |-> IsQueueFull(mq)]]
    /\ UNCHANGED <<parserVars, pipe, recv, limiter, mgr, frontVars>>

\* start_workers called by the application's run()
StartWorkersCall ==
    /\ mq.built
    /\ ~mq.is_running
    /\ mq' = StartWorkers(mq)
    /\ UNCHANGED <<parserVars, pipe, recv, limiter, mgr, frontVars>>

\* the worker that reads the oldest message and leaves it in the queue
WorkerGetKept ==
    /\ mq.built
    /\ mq.is_running
    /\ mq.queue # << >>
    /\ \E w \in DOMAIN mq.workers :
         /\ mq.workers[w].at = "get"
         /\ mq' = [mq EXCEPT !.workers[w] = [at |-> "run", message |-> Head(mq.queue)]]
    /\ UNCHANGED <<parserVars, pipe, recv, limiter, mgr, frontVars>>

\* _worker: queue.get() hands the worker the oldest message
WorkerGet ==
    /\ mq.built
    /\ mq.is_running
    /\ mq.queue # << >>
    /\ \E w \in DOMAIN mq.workers :
         /\ mq.workers[w].at = "get"
         /\ mq' = [mq EXCEPT !.queue = Tail(@),
                              !.workers[w] = [at |-> "run", message |-> Head(mq.queue)]]
    /\ UNCHANGED <<parserVars, pipe, recv, limiter, mgr, frontVars>>

\* the worker that marks the task done without the joiner being told
WorkerFinishSilent ==
    /\ mq.built
    /\ \E w \in DOMAIN mq.workers, outcome \in CallbackOutcomes :
         /\ mq.workers[w].at = "run"
         /\ mq' = [ProcessSingleMessage(mq, mq.workers[w].message, outcome)
                      EXCEPT !.unfinished = @ - 1, !.workers[w] = [at |-> "get"]]
    /\ UNCHANGED <<parserVars, pipe, recv, limiter, mgr, frontVars>>

\* _worker: _process_single_message has ended, then task_done
WorkerFinish ==
    /\ mq.built
    /\ \E w \in DOMAIN mq.workers, outcome \in CallbackOutcomes :
         /\ mq.workers[w].at = "run"
         /\ mq' = [TaskDone(ProcessSingleMessage(mq, mq.workers[w].message, outcome))
                      EXCEPT !.workers[w] = [at |-> "get"]]
    /\ UNCHANGED <<parserVars, pipe, recv, limiter, mgr, frontVars>>

\* a process_queue call
ProcessQueueCall ==
    /\ mq.built
    /\ mq.join.at \in {"none", "returned", "raised"}
    /\ mq' = ProcessQueue(mq, "process_queue", {})
    /\ UNCHANGED <<parserVars, pipe, recv, limiter, mgr, frontVars>>

\* the joiner runs again: process_queue returns, and batch_process
\* returns self.processed_count
JoinReturn ==
    /\ mq.built
    /\ mq.join.at = "woken"
    /\ mq' = [mq EXCEPT !.join.at = "returned",
                         !.join.qsize = Len(mq.queue),
                         !.join.unfinished = mq.unfinished,
                         !.join.value = mq.processed_count]
    /\ UNCHANGED <<parserVars, pipe, recv, limiter, mgr, frontVars>>

\* a batch_process(messages) call up to its suspension: enqueue_messages,
\* then process_queue; QueueFull ends the call
BatchProcessCall ==
    /\ mq.built
    /\ mq.join.at \in {"none", "returned", "raised"}
    /\ \E n \in 1..MaxBatch :
         /\ mq.next + n - 1 <= MaxEnqueue
         /\ LET ids == [i \in 1..n |-> mq.next + i - 1]
                r == EnqueueMessages(mq, ids)
                e == [r.q EXCEPT !.next = @ + n]
            IN  mq' = IF r.raised
                      THEN [e EXCEPT !.join = [at |-> "raised", kind |-> "batch_process",
                                               ids |-> {ids[i] : i \in 1..n}]]
                      ELSE ProcessQueue(e, "batch_process", {ids[i] : i \in 1..n})
    /\ UNCHANGED <<parserVars, pipe, recv, limiter, mgr, frontVars>>

-----------------------------------------------------------------------------
(* SignalValidator called directly: the price rules *)

MaxTakeProfits == 2          \* take-profit levels a call may pass

\* the prices of the validator tests, zero, and one far larger price
Prices == {0, 95, 100, 105, 110, 100000}
SignalTypes == {"BUY", "SELL", "LONG", "SHORT"}
TakeProfitLists(n) == UNION { [1..k -> Prices] : k \in 0..n }

\* the branch on signal_type of validate_price_levels
CheckLevels(signal_type, entry, stop_loss, take_profit) ==
    IF signal_type = "BUY"
    THEN ValidateBuySignal(entry, stop_loss, take_profit)
    ELSE ValidateSellSignal(entry, stop_loss, take_profit)

\* the loop that stops at the first failing take-profit
ValidatePriceLevelsFirstOnly(entry, stop_loss, take_profits, signal_type) ==
    IF ~CheckLevels(signal_type, entry, stop_loss, << >>)
    THEN [is_valid |-> FALSE, errors |-> <<0>>, examined |-> << >>]
    ELSE LET bad == { i \in DOMAIN take_profits :
                        ~CheckLevels(signal_type, entry, stop_loss,
                                     <<take_profits[i]>>) }
             first == CHOOSE i \in bad : \A j \in bad : i <= j
         IN  IF bad = {}
             THEN [is_valid |-> TRUE, errors |-> << >>,
                   examined |-> [i \in DOMAIN take_profits |-> i]]
             ELSE [is_valid |-> FALSE, errors |-> <<first>>,
                   examined |-> [i \in 1..first |-> i]]

\* validate_price_levels: errors holds 0 for the entry/stop-loss message
\* and idx for the message prefixed "TP{idx}: "; examined logs the
\* take-profits handed to the buy/sell check
ValidatePriceLevels(entry, stop_loss, take_profits, signal_type) ==
    IF ~CheckLevels(signal_type, entry, stop_loss, << >>)
    THEN [is_valid |-> FALSE, errors |-> <<0>>, examined |-> << >>]
    ELSE LET Errors[n \in 0..Len(take_profits)] ==
                 IF n = 0 THEN << >>
                 ELSE IF CheckLevels(signal_type, entry, stop_loss,
                                     <<take_profits[n]>>)
                      THEN Errors[n - 1]
                      ELSE Append(Errors[n - 1], n)
             errors == Errors[Len(take_profits)]
         IN  [is_valid |-> Len(errors) = 0, errors |-> errors,
              examined |-> [i \in DOMAIN take_profits |-> i]]

\* (num / den).quantize(Decimal("0.01")) in hundredths, for num, den > 0:
\* the context rounds half to even
Quantize(num, den) ==
    LET q == (100 * num) \div den
        r == (100 * num) % den
    IN  IF 2 * r > den THEN q + 1
        ELSE IF 2 * r < den THEN q
        ELSE IF q % 2 = 0 THEN q ELSE q + 1

\* the ratio computed without the two positivity checks
CalculateRiskRewardRatioUnchecked(entry, stop_loss, take_profit, signal_type) ==
    LET risk == IF signal_type = "BUY" THEN entry - stop_loss ELSE stop_loss - entry
        reward == IF signal_type = "BUY" THEN take_profit - entry ELSE entry - take_profit
    IN  IF risk = 0
        THEN [exc |-> "ValidationError", field |-> "risk_reward"]
        ELSE IF risk < 0 \/ reward <= 0
        THEN [exc |-> "none", value |-> 0]
        ELSE [exc |-> "none", value |-> Quantize(reward, risk)]

\* calculate_risk_reward_ratio: the ratio in hundredths, or the
\* ValidationError the except clause re-raises
CalculateRiskRewardRatio(entry, stop_loss, take_profit, signal_type) ==
    LET risk == IF signal_type = "BUY" THEN entry - stop_loss ELSE stop_loss - entry
        reward == IF signal_type = "BUY" THEN take_profit - entry ELSE entry - take_profit
    IN  IF risk <= 0
        THEN [exc |-> "ValidationError", field |-> "risk_reward"]
        ELSE IF reward <= 0
        THEN [exc |-> "ValidationError", field |-> "risk_reward"]
        ELSE [exc |-> "none", value |-> Quantize(reward, risk)]

\* the values handed to validate_price: texts, None and the empty string
PriceInputs == EntryTexts \cup {""}

\* validate_price: Decimal(str(price)) raises decimal.InvalidOperation, an
\* ArithmeticError, which "except (ValueError, TypeError)" does not catch
ValidatePrice(price) ==
    IF ~IsDecimal(price)
    THEN [exc |-> "InvalidOperation"]
    ELSE IF ToDecimal(price) <= 0
    THEN [exc |-> "ValidationError", field |-> "price"]
    ELSE [exc |-> "none", value |-> ToDecimal(price)]

\* a caller runs one of the two direction checks, the take-profit given
\* (a one-element sequence) or left at its default
ValidateBuySignalCall ==
    /\ pc = "idle"
    /\ val = NoVal
    /\ ext = NoExt
    /\ \E entry \in Prices, stop_loss \in Prices, take_profit \in TakeProfitLists(1) :
         val' = [called |-> TRUE, fn |-> "validate_buy_signal",
                 entry |-> entry, stop_loss |-> stop_loss,
                 take_profit |-> take_profit,
                 out |-> ValidateBuySignal(entry, stop_loss, take_profit)]
    /\ UNCHANGED <<templates, pc, message, chan, candidates, attempts, result,
                   ext, db, calls, batch, serviceVars>>

ValidateSellSignalCall ==
    /\ pc = "idle"
    /\ val = NoVal
    /\ ext = NoExt
    /\ \E entry \in Prices, stop_loss \in Prices, take_profit \in TakeProfitLists(1) :
         val' = [called |-> TRUE, fn |-> "validate_sell_signal",
                 entry |-> entry, stop_loss |-> stop_loss,
                 take_profit |-> take_profit,
                 out |-> ValidateSellSignal(entry, stop_loss, take_profit)]
    /\ UNCHANGED <<templates, pc, message, chan, candidates, attempts, result,
                   ext, db, calls, batch, serviceVars>>

ValidatePriceLevelsCall ==
    /\ pc = "idle"
    /\ val = NoVal
    /\ ext = NoExt
    /\ \E entry \in Prices, stop_loss \in Prices,
          take_profits \in TakeProfitLists(MaxTakeProfits),
          signal_type \in SignalTypes :
         val' = [called |-> TRUE, fn |-> "validate_price_levels",
                 entry |-> entry, stop_loss |-> stop_loss,
                 take_profits |-> take_profits, signal_type |-> signal_type,
                 out |-> ValidatePriceLevels(entry, stop_loss, take_profits,
                                             signal_type)]
    /\ UNCHANGED <<templates, pc, message, chan, candidates, attempts, result,
                   ext, db, calls, batch, serviceVars>>

CalculateRiskRewardRatioCall ==
    /\ pc = "idle"
    /\ val = NoVal
    /\ ext = NoExt
    /\ \E entry \in Prices, stop_loss \in Prices, take_profit \in Prices,
          signal_type \in SignalTypes :
         val' = [called |-> TRUE, fn |-> "calculate_risk_reward_ratio",
                 entry |-> entry, stop_loss |-> stop_loss,
                 take_profit |-> take_profit, signal_type |-> signal_type,
                 out |-> CalculateRiskRewardRatio(entry, stop_loss, take_profit,
                                                  signal_type)]
    /\ UNCHANGED <<templates, pc, message, chan, candidates, attempts, result,
                   ext, db, calls, batch, serviceVars>>

ValidatePriceCall ==
    /\ pc = "idle"
    /\ val = NoVal
    /\ ext = NoExt
    /\ \E price \in PriceInputs :
         val' = [called |-> TRUE, fn |-> "validate_price", price |-> price,
                 out |-> ValidatePrice(price)]
    /\ UNCHANGED <<templates, pc, message, chan, candidates, attempts, result,
                   ext, db, calls, batch, serviceVars>>

-----------------------------------------------------------------------------

InitExtract ==
    /\ templates = << >>
    /\ pc = "idle"
    /\ message = [l \in Locators |-> None]
    /\ chan = "c1"
    /\ candidates = << >>
    /\ attempts = << >>
    /\ result = NoResult
    /\ ext = NoExt
    /\ db = EmptyDb
    /\ calls = << >>
    /\ batch = NoBatch
    /\ val = NoVal
    /\ pipe = NoPipe
    /\ recv = NoReceived
    /\ limiter = NoLimiter
    /\ mq = NoQueue
    /\ mgr = NoManagerCall
    /\ chans = NoChannels
    /\ bot = NoBot
    /\ row = NoMessageRow

\* a caller runs extract_all_fields(message, extraction_config); the call
\* keeps no state, so one call per behaviour covers every call
ExtractAllFieldsCall ==
    /\ pc = "idle"
    /\ ext = NoExt
    /\ \E msg \in Messages, config \in Configs :
          ext' = [called |-> TRUE, message |-> msg, config |-> config,
                  out |-> ExtractAllFields(msg, config)]
    /\ UNCHANGED <<templates, pc, message, chan, candidates, attempts, result,
                   db, calls, batch, val, serviceVars>>

\* a caller runs test_extraction(sample_message, extraction_config); out
\* is what the extract_all_fields call inside it did
TestExtractionCall ==
    /\ pc = "idle"
    /\ ext = NoExt
    /\ \E msg \in Messages, config \in Configs :
          ext' = [called |-> TRUE, message |-> msg, config |-> config,
                  out |-> ExtractAllFields(msg, config),
                  test |-> TestExtraction(msg, config)]
    /\ UNCHANGED <<templates, pc, message, chan, candidates, attempts, result,
                   db, calls, batch, val, serviceVars>>

NextExtract ==
    \/ ExtractAllFieldsCall
    \/ TestExtractionCall

SpecExtract == InitExtract /\ [][NextExtract]_vars

\* the parser over a store that the template manager fills
Init == InitExtract

Next ==
    \/ CreateTemplate
    \/ SetActive
    \/ ParseStart(ParserMessages)
    \/ TryTemplate
    \/ NoTemplateSucceeded

Spec == Init /\ [][Next]_vars

\* the parser over every message, the store holding one active template
InitTemplate ==
    /\ \E config \in { c \in Configs : ValidateTemplateConfig(c) } :
         templates = << [id |-> 1, channel_id |-> "c1",
                         extraction_config |-> config, is_active |-> TRUE,
                         version |-> 1] >>
    /\ pc = "idle"
    /\ message = [l \in Locators |-> None]
    /\ chan = "c1"
    /\ candidates = << >>
    /\ attempts = << >>
    /\ result = NoResult
    /\ ext = NoExt
    /\ db = EmptyDb
    /\ calls = << >>
    /\ batch = NoBatch
    /\ val = NoVal
    /\ pipe = NoPipe
    /\ recv = NoReceived
    /\ limiter = NoLimiter
    /\ mq = NoQueue
    /\ mgr = NoManagerCall
    /\ chans = NoChannels
    /\ bot = NoBot
    /\ row = NoMessageRow

NextTemplate ==
    \/ ParseStart(Messages)
    \/ TryTemplate
    \/ NoTemplateSucceeded

SpecTemplate == InitTemplate /\ [][NextTemplate]_vars

\* parse_message with a persisting caller, and parse_batch, the store
\* holding one active template
NextBatch ==
    \/ ParseMessageCall
    \/ TryTemplate
    \/ NoTemplateSucceeded
    \/ PersistSignal
    \/ ParseBatchStart
    \/ ParseBatchCall
    \/ ParseBatchCollect
    \/ ParseBatchReturn

SpecBatch == InitTemplate /\ [][NextBatch]_vars

\* the pipeline over a store holding one active template
NextPipeline ==
    \/ ProcessMessageStart
    \/ PipelineRateLimit
    \/ PipelineDuplicate
    \/ PipelineExtract
    \/ TryTemplate
    \/ NoTemplateSucceeded
    \/ PipelineExtracted
    \/ PipelineValidate
    \/ PipelinePersist

SpecPipeline == InitTemplate /\ [][NextPipeline]_vars

\* receive_message called any number of times on one session
NextReceiver == ReceiveMessageCall

SpecReceiver == InitExtract /\ [][NextReceiver]_vars

\* the processor built as main.py builds it, then called as time passes
NextLimiter ==
    \/ GetRateLimiter
    \/ MessageProcessorInit
    \/ Tick
    \/ ProcessMessageCall

SpecLimiter == InitExtract /\ [][NextLimiter]_vars

\* the queue with its producers, workers and callers
NextQueue ==
    \/ MessageQueueInit
    \/ EnqueueMessageCall
    \/ StartWorkersCall
    \/ WorkerGet
    \/ WorkerFinish
    \/ ProcessQueueCall
    \/ BatchProcessCall
    \/ JoinReturn

SpecQueue == InitExtract /\ [][NextQueue]_vars

\* the event loop runs every task that is ready: a worker that can take a
\* message takes one, a running callback ends, a woken joiner resumes
FairSpecQueue ==
    /\ SpecQueue
    /\ WF_vars(WorkerGet)
    /\ WF_vars(WorkerFinish)
    /\ WF_vars(JoinReturn)

\* the templates table under create_template and update_template
NextManager ==
    \/ CreateTemplateCall
    \/ UpdateTemplateCall

SpecManager == InitExtract /\ [][NextManager]_vars

\* the price rules of SignalValidator, one direct call per behaviour
NextValidator ==
    \/ ValidateBuySignalCall
    \/ ValidateSellSignalCall
    \/ ValidatePriceLevelsCall
    \/ CalculateRiskRewardRatioCall
    \/ ValidatePriceCall

SpecValidator == InitExtract /\ [][NextValidator]_vars

-----------------------------------------------------------------------------
(* ChannelService.create_channel and get_channel_by_telegram_id *)

\* the channels the table may hold in a behaviour of the model
MaxChannels == 2

\* the Telegram identifiers passed to create_channel: a negative one, zero
\* and the identifiers of the service's tests
TelegramIds == {0 - 1, 0, 12345, 67890}

\* the channel names passed to create_channel
ChannelNames == {"", "   ", "Channel"}

\* str.strip() of a channel name
StripName(name) == IF name = "   " THEN "" ELSE name

\* isinstance(v, int)
IsInstanceInt(v) == v \in Int

\* get_channel_by_telegram_id: the rows whose telegram_channel_id is the one
\* asked for (.first() takes one of them, None is the empty set)
GetChannelByTelegramId(rows, telegram_channel_id) ==
    {c \in rows : c.telegram_channel_id = telegram_channel_id}

\* create_channel with the identifier check of test_create_channel_invalid_ids
CreateChannelPositiveIds(rows, telegram_channel_id, telegram_chat_id, name, flush_ok) ==
    LET call == [op |-> "create_channel",
                 telegram_channel_id |-> telegram_channel_id,
                 telegram_chat_id |-> telegram_chat_id,
                 name |-> name]
        channel == [telegram_channel_id |-> telegram_channel_id,
                    telegram_chat_id |-> telegram_chat_id,
                    name |-> StripName(name),
                    is_active |-> TRUE]
    IN  IF name = "" \/ StripName(name) = ""
        THEN [rows |-> rows, last |-> call @@ [exc |-> "ValidationError"]]
        ELSE IF telegram_channel_id <= 0 \/ telegram_chat_id <= 0
        THEN [rows |-> rows, last |-> call @@ [exc |-> "ValidationError"]]
        ELSE IF GetChannelByTelegramId(rows, telegram_channel_id) # {}
        THEN [rows |-> rows, last |-> call @@ [exc |-> "ChannelError"]]
        ELSE IF ~flush_ok
        THEN [rows |-> rows, last |-> call @@ [exc |-> "DatabaseError"]]
        ELSE [rows |-> rows \cup {channel}, last |-> call @@ [exc |-> "none"]]

\* create_channel: the name check, the type check of the two identifiers,
\* the lookup of an existing channel, then the insert and its flush
CreateChannel(rows, telegram_channel_id, telegram_chat_id, name, flush_ok) ==
    LET call == [op |-> "create_channel",
                 telegram_channel_id |-> telegram_channel_id,
                 telegram_chat_id |-> telegram_chat_id,
                 name |-> name]
        channel == [telegram_channel_id |-> telegram_channel_id,
                    telegram_chat_id |-> telegram_chat_id,
                    name |-> StripName(name),
                    is_active |-> TRUE]
    IN  IF name = "" \/ StripName(name) = ""
        THEN [rows |-> rows, last |-> call @@ [exc |-> "ValidationError"]]
        ELSE IF ~IsInstanceInt(telegram_channel_id) \/ ~IsInstanceInt(telegram_chat_id)
        THEN [rows |-> rows, last |-> call @@ [exc |-> "ValidationError"]]
        ELSE IF GetChannelByTelegramId(rows, telegram_channel_id) # {}
        THEN [rows |-> rows, last |-> call @@ [exc |-> "ChannelError"]]
        ELSE IF ~flush_ok
        THEN [rows |-> rows, last |-> call @@ [exc |-> "DatabaseError"]]
        ELSE [rows |-> rows \cup {channel}, last |-> call @@ [exc |-> "none"]]

\* one call of create_channel
CreateChannelCall ==
    /\ Cardinality(chans.rows) < MaxChannels
    /\ \E telegram_channel_id \in TelegramIds, telegram_chat_id \in TelegramIds,
          name \in ChannelNames, flush_ok \in BOOLEAN :
          chans' = CreateChannel(chans.rows, telegram_channel_id,
                                 telegram_chat_id, name, flush_ok)
    /\ UNCHANGED <<parserVars, pipe, recv, limiter, mq, mgr, bot, row>>

\* a stored channel is switched off or on again (deactivate_channel,
\* activate_channel)
SetChannelActive ==
    /\ \E c \in chans.rows, active \in BOOLEAN :
          /\ c.is_active # active
          /\ chans' = [rows |-> (chans.rows \ {c}) \cup {[c EXCEPT !.is_active = active]},
                       last |-> [op |-> "set_active"]]
    /\ UNCHANGED <<parserVars, pipe, recv, limiter, mq, mgr, bot, row>>

\* the channels table under create_channel
NextChannel ==
    \/ CreateChannelCall
    \/ SetChannelActive

SpecChannel == InitExtract /\ [][NextChannel]_vars

-----------------------------------------------------------------------------
(* LineBasedExtractionMethod.extract over texts of characters *)

\* the length of the message texts handed to the line method
MaxText == 4

\* the characters of those texts: a letter, the marker's character, a blank
\* and the line break
Chars == {"a", ":", " ", "\n"}

\* str.strip() removes these from both ends
Whitespace == {" ", "\n"}

\* the message texts: every text of at most MaxText characters
Texts == UNION {[1..n -> Chars] : n \in 0..MaxText}

\* the configurations of a line field: line_number and marker_after are
\* optional keys
LineConfigs ==
    LET line_numbers == {[line_number |-> n] : n \in {0 - 1, 0, 1}} \cup {<<>>}
        markers == {[marker_after |-> m] : m \in {<< >>, <<":">>, <<":", " ">>}}
                       \cup {<<>>}
    IN  {l @@ m : l \in line_numbers, m \in markers}

\* the text s[from..]
Tail_(s, from) == SubSeq(s, from, Len(s))

\* str.find(sub, from): the least index at or after from where sub starts
\* in s, 0 when there is none (indices from 1)
FindText(s, sub, from) ==
    LET starts == {i \in from..(Len(s) - Len(sub) + 1) :
                      \A k \in 1..Len(sub) : s[i + k - 1] = sub[k]}
    IN  IF starts = {} THEN 0
        ELSE CHOOSE i \in starts : \A j \in starts : i <= j

\* str.split(sep) for a non-empty sep: the pieces between the occurrences
\* of sep, taken from the left without overlap
RECURSIVE SplitText(_, _)
SplitText(s, sep) ==
    LET i == FindText(s, sep, 1)
    IN  IF i = 0 THEN <<s>>
        ELSE <<SubSeq(s, 1, i - 1)>> \o SplitText(Tail_(s, i + Len(sep)), sep)

\* str.strip()
RECURSIVE StripText(_)
StripText(s) ==
    IF s = << >> THEN s
    ELSE IF s[1] \in Whitespace THEN StripText(Tail(s))
    ELSE IF s[Len(s)] \in Whitespace THEN StripText(SubSeq(s, 1, Len(s) - 1))
    ELSE s

\* a returned text, and the return value None
Text(s) == [none |-> FALSE, text |-> s]
NoText == [none |-> TRUE]

\* LineBasedExtractionMethod.extract
LineBasedExtract(text, config) ==
    LET lines == SplitText(text, <<"\n">>)
        line_number == Get(config, "line_number", 0)
        marker_after == Get(config, "marker_after", << >>)
    IN  IF line_number < 0 \/ line_number >= Len(lines) THEN NoText
        ELSE LET line == StripText(lines[line_number + 1])
                 parts == IF marker_after # << >>
                          THEN SplitText(line, marker_after) ELSE <<line>>
             IN  IF marker_after # << >> /\ Len(parts) > 1
                 THEN Text(StripText(parts[2]))
                 ELSE IF line # << >> THEN Text(line) ELSE NoText

\* one call of the line method
LineBasedExtractCall ==
    /\ pc = "idle"
    /\ ext = NoExt
    /\ val = NoVal
    /\ \E text \in Texts, config \in LineConfigs :
         ext' = [called |-> TRUE, fn |-> "line", message |-> text,
                 config |-> config, out |-> LineBasedExtract(text, config)]
    /\ UNCHANGED <<templates, pc, message, chan, candidates, attempts, result,
                   db, calls, batch, val, serviceVars>>

\* the line method called directly, one call per behaviour
NextLine ==
    \/ LineBasedExtractCall

SpecLine == InitExtract /\ [][NextLine]_vars

-----------------------------------------------------------------------------
(* ParserEngine._normalize_take_profits called directly *)

\* the length of the take-profit lists handed to the function
MaxListed == 2

\* an argument or list entry is tagged with its Python type: a number, a
\* text, a dict (optional keys level, price, hit, hit_at), a list, None, or
\* a value of another type (a tuple)
Number(n) == [kind |-> "number", number |-> n]
TextValue(s) == [kind |-> "text", text |-> s]
Dict(d) == [kind |-> "dict", dict |-> d]
List(items) == [kind |-> "list", items |-> items]
NoneValue == [kind |-> "none"]
OtherValue == [kind |-> "other"]

\* the scalars: numbers and texts, zero and the empty text among them
Scalars == {Number(n) : n \in {0, 105}} \cup {TextValue(s) : s \in {"", "110", "n/a"}}

\* the take-profit objects
TakeProfitDicts ==
    LET levels == {[level |-> "final"], <<>>}
        prices == {[price |-> 110], <<>>}
        hits == {[hit |-> TRUE], <<>>}
        hit_ats == {[hit_at |-> "2024-01-01"], <<>>}
    IN  {Dict(l @@ p @@ h @@ a) : l \in levels, p \in prices, h \in hits, a \in hit_ats}

\* what a list may hold
Entries == (Scalars \ {TextValue("")}) \cup TakeProfitDicts

\* the arguments of the function
TakeProfitInputs ==
    {NoneValue, OtherValue} \cup Scalars
        \cup {List(items) : items \in UNION {[1..n -> Entries] : n \in 0..MaxListed}}

\* bool(v)
TruthyValue(v) ==
    CASE v.kind = "none" -> FALSE
      [] v.kind = "number" -> v.number # 0
      [] v.kind = "text" -> v.text # ""
      [] v.kind = "list" -> v.items # << >>
      [] v.kind = "dict" -> v.dict # <<>>
      [] OTHER -> TRUE

\* Decimal(str(v)) of a number or a text is defined
IsDecimalValue(v) == v.kind = "number" \/ (v.kind = "text" /\ IsDecimal(v.text))

\* Decimal(str(v))
ToDecimalValue(v) == IF v.kind = "number" THEN v.number ELSE ToDecimal(v.text)

\* f"TP{idx}"
TPLabel(idx) == <<"TP1", "TP2", "TP3", "TP4">>[idx]

\* the entry built for the idx-th element of a list
NormalizedEntry(tp, idx) ==
    IF tp.kind = "dict"
    THEN [level |-> Get(tp.dict, "level", TPLabel(idx)),
          price |-> Get(tp.dict, "price", 0),
          hit |-> Get(tp.dict, "hit", FALSE),
          hit_at |-> Get(tp.dict, "hit_at", None)]
    ELSE [level |-> TPLabel(idx), price |-> ToDecimalValue(tp),
          hit |-> FALSE, hit_at |-> None]

\* the normalization that resets hit and hit_at of every entry
NormalizeTakeProfitsDataReset(take_profits_data) ==
    IF ~TruthyValue(take_profits_data) THEN [exc |-> "none", value |-> << >>]
    ELSE IF take_profits_data.kind \in {"number", "text"}
    THEN IF IsDecimalValue(take_profits_data)
         THEN [exc |-> "none",
               value |-> << [level |-> "TP1", price |-> ToDecimalValue(take_profits_data),
                             hit |-> FALSE, hit_at |-> None] >>]
         ELSE [exc |-> "InvalidOperation"]
    ELSE IF take_profits_data.kind = "list"
    THEN LET items == take_profits_data.items
         IN  IF \E i \in DOMAIN items : items[i].kind # "dict" /\ ~IsDecimalValue(items[i])
             THEN [exc |-> "InvalidOperation"]
             ELSE [exc |-> "none",
                   value |-> [i \in DOMAIN items |->
                                 [NormalizedEntry(items[i], i)
                                    EXCEPT !.hit = FALSE, !.hit_at = None]]]
    ELSE [exc |-> "none", value |-> << >>]

\* _normalize_take_profits of any argument: a falsy one gives the empty
\* list, a scalar one entry, a list one entry per element; Decimal(str(..))
\* of a text that is no number raises InvalidOperation
NormalizeTakeProfitsData(take_profits_data) ==
    IF ~TruthyValue(take_profits_data) THEN [exc |-> "none", value |-> << >>]
    ELSE IF take_profits_data.kind \in {"number", "text"}
    THEN IF IsDecimalValue(take_profits_data)
         THEN [exc |-> "none",
               value |-> << [level |-> "TP1", price |-> ToDecimalValue(take_profits_data),
                             hit |-> FALSE, hit_at |-> None] >>]
         ELSE [exc |-> "InvalidOperation"]
    ELSE IF take_profits_data.kind = "list"
    THEN LET items == take_profits_data.items
         IN  IF \E i \in DOMAIN items : items[i].kind # "dict" /\ ~IsDecimalValue(items[i])
             THEN [exc |-> "InvalidOperation"]
             ELSE [exc |-> "none",
                   value |-> [i \in DOMAIN items |-> NormalizedEntry(items[i], i)]]
    ELSE [exc |-> "none", value |-> << >>]

\* one call of _normalize_take_profits
NormalizeTakeProfitsCall ==
    /\ pc = "idle"
    /\ val = NoVal
    /\ ext = NoExt
    /\ \E take_profits_data \in TakeProfitInputs :
         val' = [called |-> TRUE, fn |-> "normalize_take_profits",
                 take_profits_data |-> take_profits_data,
                 out |-> NormalizeTakeProfitsData(take_profits_data)]
    /\ UNCHANGED <<templates, pc, message, chan, candidates, attempts, result,
                   ext, db, calls, batch, serviceVars>>

\* the normalization called directly, one call per behaviour
NextNormalize ==
    \/ NormalizeTakeProfitsCall

SpecNormalize == InitExtract /\ [][NextNormalize]_vars

-----------------------------------------------------------------------------
(* MessageReceiverService.record_extraction_attempt on a stored Message *)

\* the calls made on the message in a behaviour of the model
MaxRecorded == 6

\* a Message row as its insert leaves it: the column defaults of
\* extraction_attempts, is_signal and processed; recorded and reported count
\* the record_extraction_attempt calls that returned and those of them that
\* reported success, marked says that mark_message_processed has run
InsertedMessage ==
    [stored |-> TRUE, extraction_attempts |-> 0, is_signal |-> FALSE,
     processed |-> FALSE, recorded |-> 0, reported |-> 0, marked |-> FALSE,
     exc |-> "none"]

\* increment_extraction_attempts
IncrementExtractionAttempts(r) ==
    [r EXCEPT !.extraction_attempts = r.extraction_attempts + 1]

\* mark_as_signal
MarkAsSignal(r) == [r EXCEPT !.is_signal = TRUE]

\* mark_as_processed
MarkAsProcessed(r) == [r EXCEPT !.processed = TRUE]

\* record_extraction_attempt marking every attempted message processed
RecordExtractionAttemptProcessed(r, success, flush_ok) ==
    IF ~r.stored THEN [r EXCEPT !.exc = "DatabaseError"]
    ELSE IF ~flush_ok THEN [r EXCEPT !.exc = "DatabaseError"]
    ELSE LET counted == IncrementExtractionAttempts(r)
             flagged == IF success THEN MarkAsSignal(counted) ELSE counted
         IN  [MarkAsProcessed(flagged) EXCEPT
                 !.recorded = r.recorded + 1,
                 !.reported = r.reported + (IF success THEN 1 ELSE 0),
                 !.exc = "none"]

\* record_extraction_attempt: an unknown message and a failed flush raise
\* DatabaseError (the failed flush rolls the row back); otherwise the
\* counter is incremented and a successful attempt sets both flags
RecordExtractionAttempt(r, success, flush_ok) ==
    IF ~r.stored THEN [r EXCEPT !.exc = "DatabaseError"]
    ELSE IF ~flush_ok THEN [r EXCEPT !.exc = "DatabaseError"]
    ELSE LET counted == IncrementExtractionAttempts(r)
             flagged == IF success
                        THEN MarkAsProcessed(MarkAsSignal(counted)) ELSE counted
         IN  [flagged EXCEPT
                 !.recorded = r.recorded + 1,
                 !.reported = r.reported + (IF success THEN 1 ELSE 0),
                 !.exc = "none"]

\* mark_message_processed
MarkMessageProcessed(r, is_signal, flush_ok) ==
    IF ~r.stored THEN [r EXCEPT !.exc = "DatabaseError"]
    ELSE IF ~flush_ok THEN [r EXCEPT !.exc = "DatabaseError"]
    ELSE LET flagged == IF is_signal THEN MarkAsSignal(r) ELSE r
         IN  [MarkAsProcessed(flagged) EXCEPT !.marked = TRUE, !.exc = "none"]

\* the message is inserted
InsertMessage ==
    /\ row = NoMessageRow
    /\ row' = InsertedMessage
    /\ UNCHANGED <<parserVars, pipe, recv, limiter, mq, mgr, chans, bot>>

\* one call of record_extraction_attempt
RecordExtractionAttemptCall ==
    /\ Get(row, "recorded", 0) < MaxRecorded
    /\ \E success \in BOOLEAN, flush_ok \in BOOLEAN :
         row' = RecordExtractionAttempt(row @@ [exc |-> "none"], success, flush_ok)
    /\ UNCHANGED <<parserVars, pipe, recv, limiter, mq, mgr, chans, bot>>

\* one call of mark_message_processed
MarkMessageProcessedCall ==
    /\ \E is_signal \in BOOLEAN, flush_ok \in BOOLEAN :
         row' = MarkMessageProcessed(row @@ [exc |-> "none"], is_signal, flush_ok)
    /\ UNCHANGED <<parserVars, pipe, recv, limiter, mq, mgr, chans, bot>>

\* a Message row under the calls that update it
NextRow ==
    \/ InsertMessage
    \/ RecordExtractionAttemptCall
    \/ MarkMessageProcessedCall

SpecRow == InitExtract /\ [][NextRow]_vars

-----------------------------------------------------------------------------
(* Queue workers running MessageProcessorService.process_message *)

\* the worker tasks of the queue that run the callback
QueueWorkers == {1, 2}

\* a worker runs the callback on its message: _process_single_message calls
\* process_message(message), a plain function without a suspension point,
\* so its check_all_limits and record_message run in one step of the event
\* loop
WorkerProcessMessage ==
    /\ limiter.built
    /\ Len(limiter.log) < MaxProcess
    /\ \E worker \in QueueWorkers, channel_id \in ReceiverChannels, user_id \in UserIds :
         LET r == ProcessMessage(limiter.rate_limiter, channel_id, user_id, limiter.now)
         IN  limiter' = [limiter EXCEPT
                           !.rate_limiter = r.rate_limiter,
                           !.log = Append(@, [channel_id |-> channel_id,
                                              user_id |-> user_id,
                                              at |-> limiter.now,
                                              admitted |-> r.value,
                                              worker |-> worker])]
    /\ UNCHANGED <<parserVars, pipe, recv, mq, mgr, frontVars>>

\* the processor as the callback of the queue's workers
NextWorkers ==
    \/ GetRateLimiter
    \/ MessageProcessorInit
    \/ Tick
    \/ WorkerProcessMessage

SpecWorkers == InitExtract /\ [][NextWorkers]_vars

-----------------------------------------------------------------------------
(* TelegramBotHandler: the /add_channel conversation and handle_message *)

\* the texts typed as the channel id, and what int(text.strip()) makes of
\* them; a text that is no number raises ValueError
IdTexts == {"12345", "-12345", "0", "1000000000", "gold"}
IntTable ==
    [t \in IdTexts \ {"gold"} |->
        CASE t = "12345" -> 12345
          [] t = "-12345" -> 0 - 12345
          [] t = "0" -> 0
          [] t = "1000000000" -> 1000000000]

\* the channel names typed; fewer than 3 characters are refused
TypedNames == {"ab", "Gold"}
NameLength(name) == IF name = "ab" THEN 2 ELSE 4

\* the texts typed as description and as provider; the conversation's
\* handlers filter commands out (filters.TEXT & ~filters.COMMAND), so
\* "/skip" never reaches them
TypedTexts == {"Daily", "Signal Masters"}

\* update.message.chat.id of the messages the bot is handed
ChatIds == {0, 12345, 0 - 12345, 0 - 100012345, 0 - 1000000000}

\* abs()
Abs(n) == IF n < 0 THEN 0 - n ELSE n

\* add_channel_get_id: the identifier put into user_data for a number typed
StoredChannelId(channel_id) ==
    IF channel_id > 0
    THEN IF channel_id < 1000000000
         THEN (0 - 100) * 1000000 - channel_id
         ELSE 0 - channel_id
    ELSE channel_id

\* /add_channel
CommandAddChannel ==
    /\ bot.state = "END"
    /\ Cardinality(chans.rows) < MaxChannels
    /\ bot' = [bot EXCEPT !.state = "ADD_CHANNEL_ID", !.reply = "ask_id"]
    /\ UNCHANGED <<parserVars, pipe, recv, limiter, mq, mgr, chans, row>>

\* add_channel_get_id
AddChannelGetId ==
    /\ bot.state = "ADD_CHANNEL_ID"
    /\ \E text \in IdTexts :
         bot' = IF text \in DOMAIN IntTable
                THEN [bot EXCEPT
                        !.user_data = [channel_id |-> StoredChannelId(IntTable[text])] @@ @,
                        !.state = "ADD_CHANNEL_NAME", !.reply = "ask_name"]
                ELSE [bot EXCEPT !.reply = "invalid_id"]
    /\ UNCHANGED <<parserVars, pipe, recv, limiter, mq, mgr, chans, row>>

\* add_channel_get_name
AddChannelGetName ==
    /\ bot.state = "ADD_CHANNEL_NAME"
    /\ \E name \in TypedNames :
         bot' = IF NameLength(name) < 3
                THEN [bot EXCEPT !.reply = "name_too_short"]
                ELSE [bot EXCEPT !.user_data = [name |-> name] @@ @,
                                 !.state = "ADD_CHANNEL_DESCRIPTION",
                                 !.reply = "ask_description"]
    /\ UNCHANGED <<parserVars, pipe, recv, limiter, mq, mgr, chans, row>>

\* add_channel_get_description
AddChannelGetDescription ==
    /\ bot.state = "ADD_CHANNEL_DESCRIPTION"
    /\ \E text \in TypedTexts :
         bot' = [bot EXCEPT
                   !.user_data = [description |-> IF text = "/skip" THEN None ELSE text] @@ @,
                   !.state = "ADD_CHANNEL_PROVIDER", !.reply = "ask_provider"]
    /\ UNCHANGED <<parserVars, pipe, recv, limiter, mq, mgr, chans, row>>

\* add_channel_get_provider: create_channel with the stored identifier as
\* both telegram_channel_id and telegram_chat_id, the reply, and the end of
\* the conversation with user_data cleared
AddChannelGetProvider ==
    /\ bot.state = "ADD_CHANNEL_PROVIDER"
    /\ \E text \in TypedTexts, flush_ok \in BOOLEAN :
         LET r == CreateChannel(chans.rows, bot.user_data.channel_id,
                                bot.user_data.channel_id, bot.user_data.name, flush_ok)
         IN  /\ chans' = r
             /\ bot' = [bot EXCEPT
                          !.user_data = <<>>,
                          !.state = "END",
                          !.reply = CASE r.last.exc = "none" -> "added_successfully"
                                      [] r.last.exc = "ValidationError" -> "validation_error"
                                      [] r.last.exc = "ChannelError" -> "channel_error"
                                      [] OTHER -> "error"]
    /\ UNCHANGED <<parserVars, pipe, recv, limiter, mq, mgr, row>>

\* /cancel
CancelAddChannel ==
    /\ bot.state # "END"
    /\ bot' = [bot EXCEPT !.user_data = <<>>, !.state = "END", !.reply = "cancelled"]
    /\ UNCHANGED <<parserVars, pipe, recv, limiter, mq, mgr, chans, row>>

\* handle_message: the channel is looked up under abs(chat_id); an unknown
\* or inactive channel ends the call; receive_message stores the message
\* unless it is a duplicate; an exception is logged and rolled back.
\* handled keeps the chat, the identifier looked up, whether an active
\* channel was registered for the chat, and the outcome
HandleMessage ==
    /\ \E chat_id \in ChatIds, message_id \in TelegramMessageIds, has_text \in BOOLEAN :
         LET found == GetChannelByTelegramId(chans.rows, Abs(chat_id))
             registered == \E c \in chans.rows : c.telegram_chat_id = chat_id /\ c.is_active
             d == IsDuplicateMessage(recv.stored, Abs(chat_id), message_id)
             outcome ==
                 IF ~has_text THEN "no_text"
                 ELSE IF found = {} THEN "unknown_channel"
                 ELSE IF \E c \in found : ~c.is_active THEN "inactive"
                 ELSE IF d.exc # "none" THEN "error"
                 ELSE IF d.value THEN "duplicate"
                 ELSE "stored"
         IN  /\ bot' = [bot EXCEPT
                          !.handled = [chat_id |-> chat_id, has_text |-> has_text,
                                       looked_up |-> Abs(chat_id),
                                       registered |-> registered,
                                       outcome |-> outcome]]
             /\ recv' = IF outcome = "stored"
                        THEN [recv EXCEPT
                                !.stored = @ \cup {[id |-> Cardinality(@) + 1,
                                                    channel_id |-> Abs(chat_id),
                                                    telegram_message_id |-> message_id]}]
                        ELSE recv
    /\ UNCHANGED <<parserVars, pipe, limiter, mq, mgr, chans, row>>

\* the bot: channels are added in conversation, switched off and on, and
\* messages arrive
NextBot ==
    \/ CommandAddChannel
    \/ AddChannelGetId
    \/ AddChannelGetName
    \/ AddChannelGetDescription
    \/ AddChannelGetProvider
    \/ CancelAddChannel
    \/ SetChannelActive
    \/ HandleMessage

SpecBot == InitExtract /\ [][NextBot]_vars

-----------------------------------------------------------------------------
(* Properties *)

\* the active templates of a channel, read off the table
ActiveIn(channel_id) ==
    { i \in DOMAIN templates :
        templates[i].channel_id = channel_id /\ templates[i].is_active }

PriorityOf(t) ==
    IF "priority" \in DOMAIN templates[t].extraction_config
    THEN templates[t].extraction_config.priority ELSE 0

SignalReturned == pc = "done" /\ result.signal # Nil

\* C1: parse_message tries the active templates of the channel one at a time
\* in descending priority (default 0): no attempt follows a successful one,
\* the signal returned is the one of the last attempt, every template of
\* higher priority than the winner was attempted before it, and a template
\* of lower priority is never attempted before one of higher priority.
C1_PriorityOrder ==
    /\ \A i, j \in DOMAIN attempts :
         i < j => /\ PriorityOf(attempts[i].template) >= PriorityOf(attempts[j].template)
                  /\ attempts[i].template # attempts[j].template
                  /\ attempts[i].exc # "none"
    /\ SignalReturned =>
         LET w == attempts[Len(attempts)]
         IN  /\ w.exc = "none"
             /\ result.signal.template_id = w.template
             /\ \A t \in ActiveIn(chan) :
                  PriorityOf(t) > PriorityOf(w.template) =>
                     \E i \in 1..(Len(attempts) - 1) : attempts[i].template = t

\* C1 witness: the template stored second has the higher priority, is tried
\* first and fails; the lower-priority template stored first then wins
C1_Witness ==
    /\ SignalReturned
    /\ Len(attempts) = 2
    /\ attempts[1].template > attempts[2].template
    /\ PriorityOf(attempts[1].template) > PriorityOf(attempts[2].template)

DataFailure(a) ==
    \/ a.reason \in {"extraction_failed", "no_data"}
    \/ a.exc = "ValidationError" /\ a.field \in {"symbol", "entry_price"}

\* C2: a template that fails on the data (extraction errors, nothing
\* extracted, no symbol or entry_price) is followed by the next candidate;
\* when no template yields a signal, all candidates were attempted in order
\* and the call returns (absent, "no template extracted"); nothing is raised.
C2_FailuresFallThrough ==
    /\ result.outcome # "raised"
    /\ pc = "done" =>
         \A i \in DOMAIN attempts :
            DataFailure(attempts[i]) /\ i < Len(candidates) => i < Len(attempts)
    /\ (pc = "done" /\ candidates # << >> /\ result.signal = Nil) =>
         /\ Len(attempts) = Len(candidates)
         /\ \A i \in DOMAIN attempts :
              attempts[i].template = candidates[i] /\ attempts[i].exc # "none"
         /\ result.error = "no_template_extracted"

\* C2 witness: two templates failed, one with nothing extracted and one for
\* the missing symbol, and the aggregate error came back
C2_Witness ==
    /\ pc = "done"
    /\ result.signal = Nil
    /\ Len(attempts) = 2
    /\ \E i \in DOMAIN attempts : attempts[i].reason = "no_data"
    /\ \E i \in DOMAIN attempts :
         attempts[i].exc = "ValidationError" /\ attempts[i].field = "symbol"

\* C3: with no active template in the channel the call returns (absent,
\* "no templates") and attempts nothing; only active templates of the
\* channel are candidates or attempted, and "no templates" is returned only
\* when the channel has no active template.
C3_NoTemplates ==
    /\ (pc # "idle" /\ ActiveIn(chan) = {}) =>
         /\ pc = "done"
         /\ result = Returned(Nil, "no_templates")
         /\ attempts = << >>
    /\ \A i \in DOMAIN candidates : candidates[i] \in ActiveIn(chan)
    /\ \A i \in DOMAIN attempts : attempts[i].template \in ActiveIn(chan)
    /\ (pc = "done" /\ result.error = "no_templates") => ActiveIn(chan) = {}

\* C3 witness: the channel has an inactive template, another channel an
\* active one, and the call reported "no templates"
C3_Witness ==
    /\ pc = "done"
    /\ result.error = "no_templates"
    /\ attempts = << >>
    /\ \E i \in DOMAIN templates :
         templates[i].channel_id = chan /\ ~templates[i].is_active
    /\ \E i \in DOMAIN templates :
         templates[i].channel_id # chan /\ templates[i].is_active

\* C4: when a candidate template holds a regex field with an invalid
\* pattern, parse_message raises the configuration error to its caller.
C4_ConfigErrorPropagates ==
    (pc = "done" /\ \E i \in DOMAIN attempts : attempts[i].reason = "invalid_regex")
        => result.outcome = "raised"

\* C5: a template that extracted a symbol and a positive entry_price, all
\* its other (optional) fields finding no match, yields a Signal, and that
\* Signal is a BUY when signal_type is among the unmatched fields.
C5_PartialDataTolerated ==
    \A i \in DOMAIN attempts :
       LET a == attempts[i]
       IN  (/\ a.reason \notin {"invalid_regex", "extraction_failed"}
            /\ {"symbol", "entry_price"} \subseteq DOMAIN a.data
            /\ Truthy(a.data["symbol"])
            /\ IsDecimal(a.data["entry_price"])
            /\ ToDecimal(a.data["entry_price"]) > 0
            /\ \A k \in DOMAIN a.data \ {"symbol", "entry_price"} :
                 /\ k \in {"stop_loss", "take_profits", "timeframe", "signal_type"}
                 /\ a.data[k] = None)
           => /\ a.exc = "none"
              /\ SignalReturned
              /\ "signal_type" \in DOMAIN a.data => result.signal.signal_type = "BUY"

\* the value extract_field produces for a field, None when it finds nothing
Yields(msg, field_config) == ExtractField(msg, field_config).value

Occurrences(seq, x) == Cardinality({ i \in DOMAIN seq : seq[i] = x })

\* C6: when extract_all_fields returns, it has called extract_field for
\* every configured field, in order, whatever failed before; its errors name
\* each required field that yielded no value exactly once and no other field.
C6_ErrorsNameRequiredMissing ==
    (ext.called /\ ext.out.exc = "none") =>
        LET fields == ext.config.fields
        IN  /\ ext.out.attempted = [i \in DOMAIN fields |-> fields[i].name]
            /\ \A i \in DOMAIN fields :
                 Occurrences(ext.out.errors, fields[i].name) =
                    IF /\ "required" \in DOMAIN fields[i]
                       /\ fields[i].required
                       /\ Yields(ext.message, fields[i]) = None
                    THEN 1 ELSE 0
            /\ \A j \in DOMAIN ext.out.errors :
                 \E i \in DOMAIN fields : fields[i].name = ext.out.errors[j]

\* C6 witness: a required field failed, a later optional field found nothing
\* and a field after both was still extracted
C6_Witness ==
    /\ ext.called
    /\ ext.out.exc = "none"
    /\ Len(ext.out.errors) = 1
    /\ \E i, j, k \in DOMAIN ext.config.fields :
         /\ i < j /\ j < k
         /\ ext.out.errors[1] = ext.config.fields[i].name
         /\ ~ext.config.fields[j].required
         /\ Yields(ext.message, ext.config.fields[j]) = None
         /\ ext.config.fields[k].name \in DOMAIN ext.out.data
         /\ ext.out.data[ext.config.fields[k].name] # None

\* C7: the map extract_all_fields returns holds a key only for a field
\* whose extraction produced a value: no key is mapped to None.
C7_MapHoldsOnlyValues ==
    (ext.called /\ ext.out.exc = "none") =>
        \A k \in DOMAIN ext.out.data : ext.out.data[k] # None

IsRegexField(fc) ==
    "extraction_method" \in DOMAIN fc => fc.extraction_method = "regex"

InvalidRegex(fc) ==
    IsRegexField(fc) /\ "regex_pattern" \in DOMAIN fc /\ fc.regex_pattern = BadPattern

\* C8: extract_field raises ExtractionError exactly for a regex field whose
\* pattern is invalid, and extract_all_fields raises ExtractionError exactly
\* when the configuration holds such a field, having reported it neither as
\* a failure nor in the errors; a pattern that does not match never raises.
C8_InvalidRegexRaises ==
    ext.called =>
        LET fields == ext.config.fields
        IN  /\ \A i \in DOMAIN fields :
                 (ExtractField(ext.message, fields[i]).exc = "ExtractionError")
                    <=> InvalidRegex(fields[i])
            /\ (ext.out.exc = "ExtractionError")
                    <=> \E i \in DOMAIN fields : InvalidRegex(fields[i])
            /\ ext.out.exc \in {"none", "ExtractionError"}

\* C8 witness: the second field's pattern is invalid, the first field was
\* extracted, and the call raised at the second
C8_Witness ==
    /\ ext.called
    /\ ext.out.exc = "ExtractionError"
    /\ Len(ext.out.attempted) = 2
    /\ InvalidRegex(ext.config.fields[2])
    /\ ext.message["sym"] # None

\* C9: every Signal parse_message returns has entry_price > 0.
C9_EntryPricePositive ==
    SignalReturned => result.signal.entry_price > 0

\* C10: every Signal parse_message returns has a signal_type among BUY,
\* SELL, LONG, SHORT and a timeframe that is absent or in the fixed set.
C10_TypeAndTimeframe ==
    SignalReturned =>
        /\ result.signal.signal_type \in {"BUY", "SELL", "LONG", "SHORT"}
        /\ \/ result.signal.timeframe = None
           \/ result.signal.timeframe \in {"1M", "5M", "15M", "30M", "1H", "4H", "1D", "1W"}

\* C11: the symbol of every Signal the parser produces is normalized:
\* uppercase and with every slash removed, the form validate_symbol gives
\* the extracted text ("xau/usd" is stored as "XAUUSD").
C11_SymbolNormalized ==
    SignalReturned =>
        LET w == attempts[Len(attempts)]
        IN  /\ result.signal.symbol = ValidateSymbol(w.data["symbol"]).value
            /\ result.signal.symbol = Upper(result.signal.symbol)
            /\ result.signal.symbol = RemoveSlashes(result.signal.symbol)

\* the attempts whose extraction handed data to _validate_extracted_data
Validated(a) == a.reason \notin {"invalid_regex", "extraction_failed", "no_data"}

HasValue(d, k) == Truthy(Get(d, k, None))

\* C13: when the extracted data lacks a symbol value or an entry_price
\* value, field validation fails with a ValidationError tagged "symbol" or
\* "entry_price" respectively, and the template builds no Signal.
C13_RequiredFieldsTagged ==
    \A i \in DOMAIN attempts :
       LET a == attempts[i]
       IN  Validated(a) =>
             /\ ~HasValue(a.data, "symbol") =>
                   a.exc = "ValidationError" /\ a.field = "symbol"
             /\ (HasValue(a.data, "symbol") /\ ~HasValue(a.data, "entry_price")) =>
                   a.exc = "ValidationError" /\ a.field = "entry_price"

\* the direction _validate_extracted_data gives an extracted signal_type
\* text: BUY when the key is missing or the text names no known type
Direction(d) ==
    LET text == Get(d, "signal_type", "BUY")
    IN  IF text \in {"sell", "sell ", "SELL"} THEN "SELL" ELSE "BUY"

WrongSide(d) ==
    LET entry == ToDecimal(d["entry_price"])
        stop_loss == ToDecimal(d["stop_loss"])
    IN  \/ Direction(d) = "BUY" /\ entry <= stop_loss
        \/ Direction(d) = "SELL" /\ entry >= stop_loss

\* C14: the price-relationship check is advisory: extracted data with a
\* symbol, a numeric entry_price and a stop-loss on the wrong side of the
\* entry for the direction (BUY with entry <= stop-loss, SELL with entry >=
\* stop-loss) still yields the Signal, carrying that stop-loss.
C14_PriceCheckAdvisory ==
    \A i \in DOMAIN attempts :
       LET a == attempts[i]
       IN  (/\ Validated(a)
            /\ HasValue(a.data, "symbol")
            /\ HasValue(a.data, "entry_price") /\ IsDecimal(a.data["entry_price"])
            /\ HasValue(a.data, "stop_loss") /\ IsDecimal(a.data["stop_loss"])
            /\ Get(a.data, "signal_type", "BUY") # None
            /\ WrongSide(a.data))
           => /\ a.exc = "none"
              /\ SignalReturned
              /\ result.signal.signal_type = Direction(a.data)
              /\ result.signal.stop_loss # Nil
              /\ result.signal.stop_loss.price = ToDecimal(a.data["stop_loss"])

\* C14 witness: a SELL whose entry lies above its stop-loss failed the
\* price check and was returned as a Signal
C14_Witness ==
    /\ SignalReturned
    /\ attempts[Len(attempts)].price_check = "failed"
    /\ result.signal.signal_type = "SELL"
    /\ result.signal.stop_loss # Nil
    /\ result.signal.entry_price > result.signal.stop_loss.price

FailedMessages(b) == { i \in DOMAIN b.outcomes : b.outcomes[i].signal = Nil }

\* C12: every Signal parse_message returns, and every Signal in the list
\* parse_batch builds, has status PENDING.
C12_StatusPending ==
    /\ SignalReturned => result.signal.status = "PENDING"
    /\ batch.active =>
         \A i \in DOMAIN batch.signals : batch.signals[i].status = "PENDING"

\* C12 witness: parse_batch returned two Signals
C12_Witness ==
    /\ batch.active
    /\ batch.returned
    /\ Len(batch.signals) = 2
    /\ batch.signals[2].status = "PENDING"

\* C16: when parse_batch returns, parse_message was called on every message
\* of the list, in order, and with M the number of messages it returned no
\* signal for: total_messages = N, successful_extractions = N - M,
\* failed_extractions = M, errors has length M and signals length N - M.
C16_BatchStatistics ==
    (batch.active /\ batch.returned) =>
        LET N == Len(batch.messages)
            M == Cardinality(FailedMessages(batch))
        IN  /\ Len(batch.outcomes) = N
            /\ \A i \in 1..N : batch.outcomes[i].message = batch.messages[i]
            /\ batch.stats.total_messages = N
            /\ batch.stats.successful_extractions = N - M
            /\ batch.stats.failed_extractions = M
            /\ Len(batch.stats.errors) = M
            /\ Len(batch.signals) = N - M

\* C16 witness: the first message of a batch of two failed and the second
\* was still parsed, into a Signal
C16_Witness ==
    /\ batch.active
    /\ batch.returned
    /\ Len(batch.messages) = 2
    /\ batch.outcomes[1].signal = Nil
    /\ batch.outcomes[2].signal # Nil
    /\ batch.stats.failed_extractions = 1
    /\ Len(batch.stats.errors) = 1

\* a step of parse_message or parse_batch
ParserStep == pc' # pc \/ attempts' # attempts \/ batch' # batch

\* C17: no step of parse_message or parse_batch writes to the store: the
\* templates, the signals table and the marked messages stay as they are,
\* and the only session method such a step invokes is a query.
C17_ParserNeverWrites ==
    [][ParserStep =>
          /\ templates' = templates
          /\ db' = db
          /\ calls' = calls \/ calls' = Append(calls, "query")]_vars

\* C17 witness: a Signal was returned and is in no table; the session has
\* seen one query
C17_Witness ==
    /\ SignalReturned
    /\ ~batch.active
    /\ templates # << >>
    /\ db = EmptyDb
    /\ calls = <<"query">>

\* C18: validate_buy_signal returns True exactly when entry > stop_loss and
\* no take-profit is given or take_profit > entry; validate_sell_signal
\* exactly when entry < stop_loss and no take-profit is given or
\* take_profit < entry; every other case, equality included, raises
\* ValidationError (the outcome FALSE).
C18_BuySellRules ==
    /\ (val.called /\ val.fn = "validate_buy_signal") =>
          (val.out <=> /\ val.entry > val.stop_loss
                       /\ \/ val.take_profit = << >>
                          \/ val.take_profit[1] > val.entry)
    /\ (val.called /\ val.fn = "validate_sell_signal") =>
          (val.out <=> /\ val.entry < val.stop_loss
                       /\ \/ val.take_profit = << >>
                          \/ val.take_profit[1] < val.entry)

\* C18 witness: a buy check whose take-profit equals the entry raised
C18_Witness ==
    /\ val.called
    /\ val.fn = "validate_buy_signal"
    /\ val.entry > val.stop_loss
    /\ val.take_profit = <<val.entry>>
    /\ ~val.out

\* the entry/stop-loss pair, or a take-profit, on the wrong side for BUY or SELL
EntryStopLossWrong(signal_type, entry, stop_loss) ==
    \/ signal_type = "BUY" /\ entry <= stop_loss
    \/ signal_type = "SELL" /\ entry >= stop_loss
TakeProfitWrong(signal_type, entry, take_profit) ==
    \/ signal_type = "BUY" /\ take_profit <= entry
    \/ signal_type = "SELL" /\ take_profit >= entry

\* C19: for BUY and SELL, validate_price_levels returns (False, one error)
\* having examined no take-profit when the entry/stop-loss check fails;
\* otherwise it examines every take-profit and its errors name, in order
\* and once each, exactly the take-profits on the wrong side of the entry;
\* is_valid is True exactly when the error list is empty.
C19_PriceLevels ==
    (val.called /\ val.fn = "validate_price_levels"
                /\ val.signal_type \in {"BUY", "SELL"}) =>
        LET o == val.out
            tps == val.take_profits
            wrong == { i \in DOMAIN tps :
                         TakeProfitWrong(val.signal_type, val.entry, tps[i]) }
        IN  /\ o.is_valid <=> o.errors = << >>
            /\ IF EntryStopLossWrong(val.signal_type, val.entry, val.stop_loss)
               THEN /\ ~o.is_valid
                    /\ Len(o.errors) = 1
                    /\ o.examined = << >>
               ELSE /\ o.examined = [i \in DOMAIN tps |-> i]
                    /\ Len(o.errors) = Cardinality(wrong)
                    /\ \A i \in wrong : \E j \in DOMAIN o.errors : o.errors[j] = i
                    /\ \A j, k \in DOMAIN o.errors : j < k => o.errors[j] < o.errors[k]

\* C19 witness: a BUY with a sound stop-loss and two take-profits, both
\* below the entry, came back with two errors
C19_Witness ==
    /\ val.called
    /\ val.fn = "validate_price_levels"
    /\ val.signal_type = "BUY"
    /\ val.entry > val.stop_loss
    /\ Len(val.take_profits) = 2
    /\ val.take_profits[1] < val.entry
    /\ val.take_profits[2] < val.entry
    /\ val.out.errors = <<1, 2>>

\* risk and reward as the claim defines them for BUY and SELL
Risk(v) ==
    IF v.signal_type = "BUY" THEN v.entry - v.stop_loss ELSE v.stop_loss - v.entry
Reward(v) ==
    IF v.signal_type = "BUY" THEN v.take_profit - v.entry ELSE v.entry - v.take_profit

\* C20: for BUY and SELL, calculate_risk_reward_ratio raises
\* ValidationError whenever risk <= 0 or reward <= 0 and otherwise returns
\* reward/risk rounded to the nearest hundredth: a risk of 5 against a
\* reward of 10 gives 2.00.
C20_RiskRewardRatio ==
    (val.called /\ val.fn = "calculate_risk_reward_ratio"
                /\ val.signal_type \in {"BUY", "SELL"}) =>
        IF Risk(val) <= 0 \/ Reward(val) <= 0
        THEN val.out.exc = "ValidationError"
        ELSE /\ val.out.exc = "none"
             /\ val.out.value >= 0
             /\ 2 * (100 * Reward(val) - val.out.value * Risk(val)) <= Risk(val)
             /\ 2 * (val.out.value * Risk(val) - 100 * Reward(val)) <= Risk(val)
             /\ (Risk(val) = 5 /\ Reward(val) = 10) => val.out.value = 200

\* C20 witness: entry 100, stop-loss 95, take-profit 110, BUY gave 2.00
C20_Witness ==
    /\ val.called
    /\ val.fn = "calculate_risk_reward_ratio"
    /\ val.signal_type = "BUY"
    /\ val.entry = 100 /\ val.stop_loss = 95 /\ val.take_profit = 110
    /\ val.out = [exc |-> "none", value |-> 200]

\* C21: validate_price returns the price as a positive decimal for every
\* input that parses as a number greater than zero and raises
\* ValidationError for every other input (zero, a negative number, a text
\* that is no number, the empty string, None); nothing else escapes.
C21_ValidatePrice ==
    (val.called /\ val.fn = "validate_price") =>
        IF IsDecimal(val.price) /\ ToDecimal(val.price) > 0
        THEN val.out = [exc |-> "none", value |-> ToDecimal(val.price)]
        ELSE val.out.exc = "ValidationError"

\* C22: test_extraction never raises; it returns success = True exactly
\* when extract_all_fields returned without errors, and when
\* extract_all_fields raises on the configuration (an invalid regex) it
\* returns success = False with exactly one error entry.
C22_TestExtractionNeverRaises ==
    (ext.called /\ "test" \in DOMAIN ext) =>
        /\ ext.test.outcome = "returned"
        /\ ext.test.success <=> (ext.out.exc = "none" /\ ext.out.errors = << >>)
        /\ (\E i \in DOMAIN ext.config.fields : InvalidRegex(ext.config.fields[i])) =>
              /\ ~ext.test.success
              /\ Len(ext.test.errors) = 1

\* C22 witness: a configuration with an invalid pattern came back as one
\* error entry
C22_Witness ==
    /\ ext.called
    /\ "test" \in DOMAIN ext
    /\ \E i \in DOMAIN ext.config.fields : InvalidRegex(ext.config.fields[i])
    /\ ext.test.outcome = "returned"
    /\ ext.test.errors = <<"ExtractionError">>


-----------------------------------------------------------------------------
(* SignalProcessingPipeline *)

StageRank(stage) == CHOOSE i \in 1..Len(Stages) : Stages[i] = stage

\* result["steps"] holds the step with the outcome
StepIs(p, step, outcome) ==
    \E i \in 1..Len(p.steps) : p.steps[i] = [step |-> step, outcome |-> outcome]

\* the stages of the call that have to run before `stage`
Applicable(p, stage) ==
    CASE stage = "rate_limit" -> p.check_rate_limit /\ p.rate_limiter # "none"
      [] stage = "duplicate_check" -> p.check_duplicates
      [] OTHER -> TRUE

\* every applicable stage before `stage` ran and passed
EarlierPassed(p, stage) ==
    \A i \in 1..(StageRank(stage) - 1) :
        Applicable(p, Stages[i]) =>
            \/ StepIs(p, Stages[i], "passed")
            \/ StepIs(p, Stages[i], "success")

\* C23: process_message runs rate-limit check, duplicate check, extraction,
\* validation, persistence in that order; a message rejected at a stage
\* reaches no later one: a rate-limited or duplicate message is never handed
\* to parse_message, and nothing is stored unless every earlier stage passed
C23_StageOrder ==
    pipe.active =>
        /\ \A i, j \in 1..Len(pipe.entered) :
               i < j => StageRank(pipe.entered[i]) < StageRank(pipe.entered[j])
        /\ \A i \in 1..Len(pipe.entered) : EarlierPassed(pipe, pipe.entered[i])
        /\ pipe.status \in {"rate_limited", "duplicate_detected"} =>
               /\ pipe.returned
               /\ pc = "idle"
               /\ attempts = << >>
               /\ pipe.entered[Len(pipe.entered)] = pipe.error_stage
               /\ db = EmptyDb
        /\ pc # "idle" => EarlierPassed(pipe, "extraction")
        /\ db # EmptyDb =>
               /\ EarlierPassed(pipe, "persistence")
               /\ pipe.entered[Len(pipe.entered)] = "persistence"

\* a call that went through all five stages and stored its signal
C23_Witness ==
    /\ pipe.active
    /\ pipe.returned
    /\ pipe.entered = Stages
    /\ pipe.status = "success"
    /\ db.signals # {}

-----------------------------------------------------------------------------
(* MessageReceiverService *)

\* C24: the messages table holds at most one row per (channel,
\* telegram_message_id); a receive_message for a key already stored returns
\* None, and for a key not stored in an existing channel (the same Telegram
\* id in another channel included) returns the stored Message
C24_OnePerChannelAndId ==
    /\ \A m, n \in recv.stored :
           (m.channel_id = n.channel_id
              /\ m.telegram_message_id = n.telegram_message_id) => m = n
    /\ \A i \in 1..Len(recv.log) :
           LET c == recv.log[i]
           IN  c.channel_id \in Channels =>
                 /\ c.existing => c.outcome = "None"
                 /\ ~c.existing =>
                       /\ c.outcome = "Message"
                       /\ ExistingMessage(recv.stored, c.channel_id,
                                          c.telegram_message_id)

-----------------------------------------------------------------------------
(* Rate limiting *)

\* the calls before call i that were admitted within the window ending at
\* call i and fall in the scope
AdmittedBefore(i, InScope(_)) ==
    Cardinality({ j \in 1..(i - 1) :
                    /\ limiter.log[j].admitted
                    /\ limiter.log[j].at >= limiter.log[i].at - limiter.requested[4]
                    /\ InScope(limiter.log[j]) })

\* every applicable scope of call i is under its limit
UnderLimits(i) ==
    LET c == limiter.log[i]
        Anywhere(d) == TRUE
        SameChannel(d) == d.channel_id = c.channel_id
        SameUser(d) == d.user_id = c.user_id
    IN  /\ AdmittedBefore(i, Anywhere) < limiter.requested[1]
        /\ AdmittedBefore(i, SameChannel) < limiter.requested[2]
        /\ Truthy(c.user_id) => AdmittedBefore(i, SameUser) < limiter.requested[3]

\* C25: with the limits asked for, process_message admits a message of an
\* existing channel exactly when every applicable scope (global, channel,
\* user) has fewer than its limit admitted within the last window, so no
\* window ever holds more admitted messages than a limit
C25_AdmitsWithinLimits ==
    limiter.built =>
        \A i \in 1..Len(limiter.log) :
            limiter.log[i].channel_id \in Channels =>
                (limiter.log[i].admitted <=> UnderLimits(i))

-----------------------------------------------------------------------------
(* MessageQueueService *)

\* C26: the queue never holds more than max_queue_size messages,
\* and enqueue_message on a full queue raises QueueFull and leaves the
\* queue as it was
C26_QueueBounded ==
    mq.built =>
        /\ Len(mq.queue) <= mq.max_queue_size
        /\ (mq.last # Nil /\ mq.last.is_queue_full) =>
               /\ mq.last.raised
               /\ mq.last.after = mq.last.before

\* the messages queued or in a worker's hands
InFlight(q) ==
    {q.queue[i] : i \in 1..Len(q.queue)}
        \cup {q.workers[w].message : w \in {v \in DOMAIN q.workers : q.workers[v].at = "run"}}

\* a process_queue call is past its start
Joined == mq.built /\ mq.join.at \in {"waiting", "woken", "returned"}

C28_BatchProcessCount ==
    (mq.built /\ mq.join.at = "returned" /\ mq.join.kind = "batch_process") =>
        mq.join.value = Cardinality(mq.join.ids \cap mq.succeeded)

-----------------------------------------------------------------------------
(* TemplateManager *)

\* the template invariant: a non-empty fields map, every field's method
\* one of the four kinds, every regex field declaring a pattern
TemplateInvariant(config) ==
    /\ "fields" \in DOMAIN config
    /\ Len(config.fields) > 0
    /\ \A i \in 1..Len(config.fields) :
         LET fc == config.fields[i]
             method == IF "extraction_method" \in DOMAIN fc
                       THEN fc.extraction_method ELSE "regex"
         IN  /\ method \in {"regex", "line", "marker", "position"}
             /\ method = "regex" => "regex_pattern" \in DOMAIN fc

\* the configuration the last TemplateManager call passed, Nil if none
PassedConfig ==
    CASE mgr.op = "create_template" -> mgr.config
      [] mgr.op = "update_template" /\ "extraction_config" \in DOMAIN mgr.kwargs
           -> mgr.kwargs.extraction_config
      [] OTHER -> Nil

\* C29: every stored extraction_config satisfies the template invariant;
\* create_template and update_template reject a config violating it with
\* TemplateError and leave the table as it was
C29_StoredConfigsValid ==
    /\ \A i \in DOMAIN templates : TemplateInvariant(templates[i].extraction_config)
    /\ (PassedConfig # Nil /\ ~TemplateInvariant(PassedConfig)) =>
           /\ mgr.exc = "TemplateError"
           /\ templates = mgr.before

\* update_template has just rejected a config for a stored template
C29_Witness ==
    /\ mgr.op = "update_template"
    /\ mgr.template_id \in DOMAIN templates
    /\ PassedConfig # Nil
    /\ ~TemplateInvariant(PassedConfig)
    /\ mgr.exc = "TemplateError"

\* C30: a successful update_template that passes an extraction_config
\* raises the template's version by exactly one; an update that passes
\* none, and an update rejected with TemplateError, leave it unchanged;
\* the version never decreases
C30_VersionCounter ==
    (mgr.op = "update_template" /\ mgr.template_id \in DOMAIN mgr.before) =>
        LET old == mgr.before[mgr.template_id].version
            new == templates[mgr.template_id].version
        IN  /\ new >= old
            /\ mgr.exc = "TemplateError" => new = old
            /\ (mgr.exc = "none" /\ "extraction_config" \in DOMAIN mgr.kwargs)
                   => new = old + 1
            /\ (mgr.exc = "none" /\ "extraction_config" \notin DOMAIN mgr.kwargs)
                   => new = old
-----------------------------------------------------------------------------
(* ChannelService *)

-----------------------------------------------------------------------------
(* Confidence score and take-profit normalization *)

\* C32: the confidence score deducts only for missing fields: a Signal with
\* a stop-loss, take-profits, a timeframe and a signal type scores exactly
\* 1.00, and one lacking only the stop-loss scores exactly 0.85.
C32_DeductsOnlyForMissing ==
    SignalReturned =>
        LET sig == result.signal
            rest == /\ sig.take_profits # << >>
                    /\ sig.timeframe \notin {None, ""}
                    /\ sig.signal_type \in {"BUY", "SELL"}
        IN  /\ (rest /\ sig.stop_loss # Nil) => sig.confidence_score = 100
            /\ (rest /\ sig.stop_loss = Nil) => sig.confidence_score = 85

-----------------------------------------------------------------------------
(* LineBasedExtractionMethod *)

\* the selected line of a line call, trimmed (the call selects one)
SelectedLine ==
    StripText(SplitText(ext.message, <<"\n">>)[Get(ext.config, "line_number", 0) + 1])

\* a line call whose line exists and holds the configured marker
MarkerOnLine ==
    /\ ext.called
    /\ ext.fn = "line"
    /\ Get(ext.config, "marker_after", << >>) # << >>
    /\ Get(ext.config, "line_number", 0) >= 0
    /\ Get(ext.config, "line_number", 0) < Len(SplitText(ext.message, <<"\n">>))
    /\ FindText(SelectedLine, ext.config.marker_after, 1) # 0

\* C33: line extraction with marker_after returns everything on the selected
\* line after the first occurrence of the marker, trimmed, also when the
\* marker occurs more than once on the line.
C33_AfterFirstMarker ==
    MarkerOnLine =>
        LET marker == ext.config.marker_after
            i == FindText(SelectedLine, marker, 1)
        IN  ext.out = Text(StripText(Tail_(SelectedLine, i + Len(marker))))

\* a call of _normalize_take_profits that returned a list
Normalized == val.called /\ val.fn = "normalize_take_profits" /\ val.out.exc = "none"

\* the k-th element of a list argument carries its own level
CarriesLevel(tp) == tp.kind = "dict" /\ "level" \in DOMAIN tp.dict

\* C34: take-profit normalization preserves count and order: a scalar yields
\* exactly one entry labelled TP1, a list of n entries yields n entries in
\* input order, the k-th labelled TPk unless it is an object carrying its
\* own level, each with hit = false and hit_at absent; an absent or empty
\* input yields the empty list.
C34_CountOrderAndFreshEntries ==
    Normalized =>
        LET arg == val.take_profits_data
            out == val.out.value
        IN  /\ arg.kind \in {"number", "text"} /\ arg # TextValue("") =>
                  Len(out) = 1 /\ out[1].level = "TP1"
            /\ arg.kind = "list" =>
                  /\ Len(out) = Len(arg.items)
                  /\ \A k \in DOMAIN out :
                        /\ out[k].price = IF arg.items[k].kind = "dict"
                                          THEN Get(arg.items[k].dict, "price", 0)
                                          ELSE ToDecimalValue(arg.items[k])
                        /\ ~CarriesLevel(arg.items[k]) => out[k].level = TPLabel(k)
            /\ \A k \in DOMAIN out : out[k].hit = FALSE /\ out[k].hit_at = None
            /\ (arg.kind = "none" \/ arg = List(<< >>)
                  \/ arg = TextValue("")) => out = << >>

\* C34 as the code has it: a scalar other than zero yields exactly one entry
\* labelled TP1 with hit = false and hit_at absent; a list of n entries
\* yields n entries in input order, the k-th labelled TPk with hit = false
\* and hit_at absent, except that an object keeps its own level, hit and
\* hit_at where it carries them; an absent, empty or zero input yields the
\* empty list.
C34_CountOrderAndCarriedFields ==
    Normalized =>
        LET arg == val.take_profits_data
            out == val.out.value
        IN  /\ arg.kind \in {"number", "text"} /\ arg \notin {TextValue(""), Number(0)} =>
                  /\ Len(out) = 1
                  /\ out[1] = [level |-> "TP1", price |-> ToDecimalValue(arg),
                               hit |-> FALSE, hit_at |-> None]
            /\ arg.kind = "list" =>
                  /\ Len(out) = Len(arg.items)
                  /\ \A k \in DOMAIN out :
                        LET tp == arg.items[k]
                        IN  IF tp.kind = "dict"
                            THEN /\ out[k].price = Get(tp.dict, "price", 0)
                                 /\ out[k].level = Get(tp.dict, "level", TPLabel(k))
                                 /\ out[k].hit = Get(tp.dict, "hit", FALSE)
                                 /\ out[k].hit_at = Get(tp.dict, "hit_at", None)
                            ELSE out[k] = [level |-> TPLabel(k),
                                           price |-> ToDecimalValue(tp),
                                           hit |-> FALSE, hit_at |-> None]
            /\ (arg.kind = "none" \/ arg = List(<< >>)
                  \/ arg \in {TextValue(""), Number(0)})
                  => out = << >>

\* a list of two: a number, then an object that was hit and has no level
C34_Witness ==
    /\ Normalized
    /\ val.take_profits_data.kind = "list"
    /\ Len(val.take_profits_data.items) = 2
    /\ val.take_profits_data.items[1].kind = "number"
    /\ val.take_profits_data.items[2].kind = "dict"
    /\ DOMAIN val.take_profits_data.items[2].dict = {"price", "hit"}
    /\ Len(val.out.value) = 2
    /\ val.out.value[1].level = "TP1"
    /\ val.out.value[2].level = "TP2"
    /\ val.out.value[2].hit

-----------------------------------------------------------------------------
(* Message rows *)

\* C35: after any sequence of record_extraction_attempt calls on a message,
\* extraction_attempts equals the number of calls made, and is_signal and
\* processed are true exactly when at least one of those calls reported
\* success; failed attempts alone leave processed false.  (Calls made are
\* the calls that returned; the sequence holds no other update of the row.)
C35_AttemptsAndFlags ==
    (row.stored /\ ~row.marked) =>
        /\ row.extraction_attempts = row.recorded
        /\ row.is_signal <=> row.reported > 0
        /\ row.processed <=> row.reported > 0

\* three calls have returned, the second of them reported success
C35_Witness ==
    /\ row.stored
    /\ ~row.marked
    /\ row.recorded = 3
    /\ row.reported = 1
    /\ row.extraction_attempts = 3
    /\ row.is_signal
    /\ row.processed

-----------------------------------------------------------------------------
(* MessageQueueService: one run of the callbacks per message *)

\* the messages in workers' hands
InHand == {mq.workers[w].message : w \in {v \in DOMAIN mq.workers : mq.workers[v].at = "run"}}

\* the messages waiting in the queue
InQueue == {mq.queue[i] : i \in DOMAIN mq.queue}

\* the messages whose run of the callbacks has ended
Completed == {id \in DOMAIN mq.completed : mq.completed[id] > 0}

-----------------------------------------------------------------------------
(* Rate limiting under several workers *)

\* C37: with several queue workers running process_message, a worker's
\* rate-limit check and its record_message are not interleaved with another
\* worker's check, so two workers cannot both be admitted when one slot
\* remains: of two calls by different workers at the same time, the first
\* made with one global slot left, at most one is admitted.
C37_OneSlotOneAdmission ==
    limiter.built =>
        \A i, j \in 1..Len(limiter.log) :
            (/\ i < j
             /\ limiter.log[i].worker # limiter.log[j].worker
             /\ limiter.log[i].at = limiter.log[j].at
             /\ limiter.log[i].channel_id \in Channels
             /\ limiter.log[j].channel_id \in Channels
             /\ LET Anywhere(d) == TRUE
                IN  AdmittedBefore(i, Anywhere) = limiter.requested[1] - 1)
            => ~(limiter.log[i].admitted /\ limiter.log[j].admitted)

-----------------------------------------------------------------------------
(* LONG and SHORT in the price rules *)

\* the direction LONG and SHORT stand for
DirectionOf(signal_type) ==
    CASE signal_type = "LONG" -> "BUY"
      [] signal_type = "SHORT" -> "SELL"
      [] OTHER -> signal_type

\* C38: LONG is validated exactly as BUY and SHORT exactly as SELL:
\* validate_price_levels and calculate_risk_reward_ratio return for LONG
\* what they return for BUY on the same prices, and for SHORT what they
\* return for SELL.
C38_LongAsBuyShortAsSell ==
    /\ (val.called /\ val.fn = "validate_price_levels") =>
          val.out = ValidatePriceLevels(val.entry, val.stop_loss, val.take_profits,
                                        DirectionOf(val.signal_type))
    /\ (val.called /\ val.fn = "calculate_risk_reward_ratio") =>
          val.out = CalculateRiskRewardRatio(val.entry, val.stop_loss, val.take_profit,
                                             DirectionOf(val.signal_type))

-----------------------------------------------------------------------------
(* The result status of the pipeline *)

\* C39: whenever process_message returns no signal, the result's status
\* names the failure (rate_limited, duplicate_detected, validation_failed,
\* persistence_failed, error, or a failure status for extraction) and is
\* never left at "pending"; the status is "success" exactly when a signal is
\* returned.
C39_StatusNamesOutcome ==
    (pipe.active /\ pipe.returned) =>
        /\ pipe.signal = Nil => pipe.status \notin {"pending", "success"}
        /\ pipe.status = "success" <=> pipe.signal # Nil

-----------------------------------------------------------------------------
(* The bot and its registered channels *)

\* C40: once /add_channel has reported success for a chat, the bot monitors
\* it: for every non-zero chat id the identifier stored by
\* add_channel_get_id and the identifier handle_message looks up agree, so
\* a message with text from a chat with a registered active channel is not
\* dropped as coming from an unknown channel.
C40_RegisteredChannelMonitored ==
    (/\ bot.handled # Nil
     /\ bot.handled.has_text
     /\ bot.handled.chat_id # 0
     /\ bot.handled.registered)
    => /\ bot.handled.looked_up = bot.handled.chat_id
       /\ bot.handled.outcome # "unknown_channel"

====
